---- MODULE Spec2Model ----
(***************************************************************************)
(* Identity session and notification consistency layer of sofull-site.     *)
(*                                                                         *)
(* Part 1 (specification Spec): the notification dispatcher of             *)
(* api/auth-email.js, from the point where a request has passed the        *)
(* request defences and its identity assertion has been verified: load    *)
(* EmailState, compute the plan, claim, send, record.  One uid, that is    *)
(* one EmailState document; several handler invocations interleave at      *)
(* their awaits.                                                           *)
(***************************************************************************)
EXTENDS Integers, Sequences, FiniteSets, TLC

\* ------------------------------------------------------------------ bounds
MaxInvocations == 3
MaxAuthStep == 1
MaxTicks == 1
MaxSignIns == 2
MaxCalls == 2
MaxClientTicks == 1
MaxRequests == 7
MaxWindows == 1

\* ------------------------------------------------------------- value space
\* JavaScript null / undefined of a numeric field.
Null == 0 - 1

Invs == 1..MaxInvocations

\* decoded.auth_time, in seconds: 0 and the later sign-ins one hour apart.
AuthTimeSeconds == {3600 * k : k \in 0..MaxAuthStep}

\* decoded.auth_time is a finite number, or absent.
AuthTimeInputs == AuthTimeSeconds \cup {Null}

\* Date.now() in ms at clock tick t; the wall clock is past every auth_time.
NowMs(t) == 1000 * (3600 * (MaxAuthStep + 1) + t)

\* LOGIN_EMAIL_COOLDOWN_SECONDS: unset ('0') or one second.
CooldownSecondsInputs == {0, 1}

EventTypes == {"welcome", "login"}

\* JavaScript truthiness of a number-or-null value: null and 0 are falsy.
Truthy(x) == x # Null /\ x # 0

NoEvent == [eventId |-> [type |-> "none", timeKey |-> Null], status |-> "none",
            createdAt |-> Null, authTimeMs |-> Null]

NoResponse == [status |-> 0, skipped |-> FALSE, sentWelcome |-> FALSE, sentLogin |-> FALSE]

NoPlan == [shouldSendWelcome |-> FALSE, shouldSendLogin |-> FALSE, isDuplicateAuthEvent |-> FALSE]

VARIABLES
    emailState,       \* the email_state/{uid} document
    inv,              \* per handler invocation: position and locals
    clock,            \* wall clock, in ticks of one second
    loginCooldownMs,  \* handler's loginCooldownMs (environment)
    sendLog,          \* history: emails the provider accepted
    recorded,         \* history: authTimeMs of invocations whose sent email was recorded
    firstClaimer,     \* history: the invocation that committed the first claim
    isNative,         \* IS_NATIVE: Capacitor.isNativePlatform(), fixed at startup
    client,           \* useGoogleAuth: React state, accessTokenRef, localStorage keys
    authUser,         \* the identity SDK's current user (auth.currentUser)
    authNotify,       \* an onAuthStateChanged delivery is due
    deviceDoc,        \* users/{uid}/devices/{deviceId} exists in the document store
    cNow,             \* the client's Date.now()
    signInPc,         \* position of the signIn() / signOut() call in progress
    calls,            \* getAccessToken() / refreshAccessToken() calls
    refreshCalls,     \* history: SocialLogin.refresh network calls issued
    signIns,          \* history: the successful signIn() calls, and whether each notified
    sessionChecks,    \* history: the session-expiry checks made, and whether each forced a logout
    mount,            \* the hook's mount: what readStoredToken found and returned
    expiredOnce,      \* history: expireToken has run
    migration,        \* browser tabs reading the stored keys one storage call at a time
    rateLimitStore,   \* RATE_LIMIT_STORE of one serverless instance
    rlNow,            \* Date.now() of that instance, in ms
    reqLog,           \* history: the observed clients' requests that reached checkRateLimit
    lastResponse      \* history: the last request's inputs and the request defences' answer

dispatcherVars == <<emailState, inv, clock, loginCooldownMs, sendLog, recorded, firstClaimer>>
clientVars == <<isNative, client, authUser, authNotify, deviceDoc, cNow, signInPc, calls,
                refreshCalls, signIns>>
clientAux == <<sessionChecks, mount, expiredOnce, migration>>
defenceVars == <<rateLimitStore, rlNow, reqLog, lastResponse>>
vars == <<dispatcherVars, clientVars, clientAux, defenceVars>>

\* ------------------------------------------------------------ pure helpers

\* toFiniteNumber(decoded.auth_time), then seconds to milliseconds.
AuthTimeMsOf(authTime) == IF authTime = Null THEN Null ELSE authTime * 1000

\* Variant: the login decision ignores shouldSendWelcome.
computeEmailPlan_LoginWithWelcome(state, now, authTimeMs, cooldownMs) ==
    LET shouldSendWelcome == ~state.welcomeSent
        isDuplicateAuthEvent ==
            IF Truthy(authTimeMs) /\ Truthy(state.lastAuthEventTime)
            THEN authTimeMs <= state.lastAuthEventTime
            ELSE FALSE
        cooledDown ==
            /\ ~Truthy(authTimeMs)
            /\ cooldownMs > 0
            /\ Truthy(state.lastLoginEmailAt)
            /\ now - state.lastLoginEmailAt < cooldownMs
    IN  [shouldSendWelcome |-> shouldSendWelcome,
         shouldSendLogin |-> ~isDuplicateAuthEvent /\ ~cooledDown,
         isDuplicateAuthEvent |-> isDuplicateAuthEvent]

\* Variant: an equal authTimeMs is not a duplicate (< for <=).
computeEmailPlan_StrictDuplicate(state, now, authTimeMs, cooldownMs) ==
    LET shouldSendWelcome == ~state.welcomeSent
        isDuplicateAuthEvent ==
            IF Truthy(authTimeMs) /\ Truthy(state.lastAuthEventTime)
            THEN authTimeMs < state.lastAuthEventTime
            ELSE FALSE
        cooledDown ==
            /\ ~Truthy(authTimeMs)
            /\ cooldownMs > 0
            /\ Truthy(state.lastLoginEmailAt)
            /\ now - state.lastLoginEmailAt < cooldownMs
    IN  [shouldSendWelcome |-> shouldSendWelcome,
         shouldSendLogin |-> ~shouldSendWelcome /\ ~isDuplicateAuthEvent /\ ~cooledDown,
         isDuplicateAuthEvent |-> isDuplicateAuthEvent]

computeEmailPlan(state, now, authTimeMs, cooldownMs) ==
    LET welcomeSent == state.welcomeSent
        lastAuthEventTime == state.lastAuthEventTime
        lastLoginEmailAt == state.lastLoginEmailAt
        shouldSendWelcome == ~welcomeSent
        isDuplicateAuthEvent ==
            IF Truthy(authTimeMs) /\ Truthy(lastAuthEventTime)
            THEN authTimeMs <= lastAuthEventTime
            ELSE FALSE
        loginBase == ~shouldSendWelcome /\ ~isDuplicateAuthEvent
        cooledDown ==
            /\ ~Truthy(authTimeMs)
            /\ cooldownMs > 0
            /\ Truthy(lastLoginEmailAt)
            /\ now - lastLoginEmailAt < cooldownMs
    IN  [shouldSendWelcome |-> shouldSendWelcome,
         shouldSendLogin |-> loginBase /\ ~cooledDown,
         isDuplicateAuthEvent |-> isDuplicateAuthEvent]

\* Variant: lastLoginEmailAt is written whatever was sent.
buildEmailStateUpdates_AlwaysLogin(state, now, authTimeMs, shouldSendWelcome, shouldSendLogin) ==
    [state EXCEPT
        !.exists = TRUE,
        !.welcomeSent = IF shouldSendWelcome THEN TRUE ELSE @,
        !.lastAuthEventTime =
            IF Truthy(authTimeMs) /\ (shouldSendWelcome \/ shouldSendLogin)
            THEN authTimeMs ELSE @,
        !.lastLoginEmailAt = now]

\* The top-level fields of the merge write; email and displayName are not modelled.
buildEmailStateUpdates(state, now, authTimeMs, shouldSendWelcome, shouldSendLogin) ==
    [state EXCEPT
        !.exists = TRUE,
        !.welcomeSent = IF shouldSendWelcome THEN TRUE ELSE @,
        !.lastAuthEventTime =
            IF Truthy(authTimeMs) /\ (shouldSendWelcome \/ shouldSendLogin)
            THEN authTimeMs ELSE @,
        !.lastLoginEmailAt = IF shouldSendLogin THEN now ELSE @]

buildEmailEventId(type, authTimeMs, fallbackTime) ==
    [type |-> type, timeKey |-> IF Truthy(authTimeMs) THEN authTimeMs ELSE fallbackTime]

\* sentAt / failedAt are not modelled.
buildEventUpdate(event, status) ==
    [eventId |-> event.eventId,
     status |-> status,
     authTimeMs |-> IF Truthy(event.authTimeMs) THEN event.authTimeMs ELSE Null,
     createdAt |-> event.createdAt]

\* Variant: a failed entry with the same eventId counts as already claimed.
claimEmailEventInState_NoRetry(state, type, authTimeMs, now) ==
    LET eventId == buildEmailEventId(type, authTimeMs, now)
        existing == state.emailEvents[type]
    IN  IF existing.eventId = eventId
        THEN [claimed |-> FALSE, eventId |-> eventId, event |-> existing]
        ELSE [claimed |-> TRUE, eventId |-> eventId,
              event |-> [eventId |-> eventId, status |-> "pending", createdAt |-> now,
                         authTimeMs |-> IF Truthy(authTimeMs) THEN authTimeMs ELSE Null]]

\* Variant: the pending entry is keyed by the handler's clock alone.
claimEmailEventInState_KeyedByNow(state, type, authTimeMs, now) ==
    LET eventId == buildEmailEventId(type, authTimeMs, now)
        existing == state.emailEvents[type]
    IN  IF existing.eventId = eventId /\ existing.status # "failed"
        THEN [claimed |-> FALSE, eventId |-> eventId, event |-> existing]
        ELSE [claimed |-> TRUE, eventId |-> eventId,
              event |-> [eventId |-> buildEmailEventId(type, Null, now),
                         status |-> "pending", createdAt |-> now,
                         authTimeMs |-> IF Truthy(authTimeMs) THEN authTimeMs ELSE Null]]

\* The decision of the claim transaction on the state it re-read.
claimEmailEventInState(state, type, authTimeMs, now) ==
    LET eventId == buildEmailEventId(type, authTimeMs, now)
        existing == state.emailEvents[type]
    IN  IF existing.eventId = eventId /\ existing.status # "failed"
        THEN [claimed |-> FALSE, eventId |-> eventId, event |-> existing]
        ELSE [claimed |-> TRUE, eventId |-> eventId,
              event |-> [eventId |-> eventId, status |-> "pending", createdAt |-> now,
                         authTimeMs |-> IF Truthy(authTimeMs) THEN authTimeMs ELSE Null]]


\* ------------------------------------------- request defences: auth-email.js

RATE_LIMIT_STORE_MAX == 2000
DEFAULT_RATE_LIMIT_WINDOW_SECONDS == 600
DEFAULT_RATE_LIMIT_MAX == 5

\* getRateLimitConfig with no environment override.
getRateLimitConfig ==
    [windowMs |-> DEFAULT_RATE_LIMIT_WINDOW_SECONDS * 1000, maxRequests |-> DEFAULT_RATE_LIMIT_MAX]

\* The clients whose requests are followed one by one, and OtherIp: a request from
\* an address the store holds no entry for.
ObservedIps == {"ip1", "ip2"}
OtherIp == "other"

Methods == {"POST", "GET", "OPTIONS"}

\* Request bodies: none (what the client sends), {captchaToken}, a string that is
\* not JSON, and an object with a key that is not allowed; each with or without
\* an application/json content type.
BodyKinds == {"none", "valid", "malformed", "unexpected"}

\* The instants the instance's clock visits: the first request's, and around the
\* end of each window counted from it.
FirstRequestAt == NowMs(0)
RateInstants ==
    {FirstRequestAt + k * getRateLimitConfig.windowMs - e : k \in 1..MaxWindows, e \in {0, 1}}
        \cup {FirstRequestAt}

NoLimitEntry == [count |-> 0, resetAt |-> Null]

\* RATE_LIMIT_STORE: the observed clients' entries one by one; the entries of all
\* other clients, which share one resetAt, by their number.
InitRateLimitStore ==
    [entries |-> [ip \in ObservedIps |-> NoLimitEntry], others |-> NoLimitEntry]

\* RATE_LIMIT_STORE.size
RateLimitStoreSize(store) ==
    Cardinality({ip \in ObservedIps : store.entries[ip] # NoLimitEntry}) + store.others.count

Stale(entry, now) == entry # NoLimitEntry /\ now >= entry.resetAt

\* The loop of cleanupRateLimitStore: every stale entry is deleted.
EvictStale(store, now) ==
    [entries |-> [ip \in ObservedIps |->
                     IF Stale(store.entries[ip], now) THEN NoLimitEntry
                     ELSE store.entries[ip]],
     others |-> IF Stale(store.others, now) THEN NoLimitEntry ELSE store.others]

cleanupRateLimitStore(store, now) ==
    IF RateLimitStoreSize(store) <= RATE_LIMIT_STORE_MAX
    THEN store
    ELSE EvictStale(store, now)

\* Variant: the count is compared with < for <=.
checkRateLimit_OffByOne(store, key, config, now) ==
    LET entry == store.entries[key]
    IN  IF entry = NoLimitEntry \/ now >= entry.resetAt
        THEN LET next == [count |-> 1, resetAt |-> now + config.windowMs]
             IN  [store |-> cleanupRateLimitStore([store EXCEPT !.entries[key] = next], now),
                  allowed |-> TRUE, remaining |-> config.maxRequests - 1,
                  resetAt |-> next.resetAt]
        ELSE LET bumped == [entry EXCEPT !.count = @ + 1]
             IN  [store |-> cleanupRateLimitStore([store EXCEPT !.entries[key] = bumped], now),
                  allowed |-> bumped.count < config.maxRequests,
                  remaining |-> IF config.maxRequests > bumped.count
                                THEN config.maxRequests - bumped.count ELSE 0,
                  resetAt |-> bumped.resetAt]

\* checkRateLimit(key, config, now): the store it leaves and the value it returns.
\* A request of OtherIp finds no entry; where the other clients' entries are stale
\* its insertion takes the store past RATE_LIMIT_STORE_MAX (OtherIpCountable) and
\* the cleanup deletes them.
checkRateLimit(store, key, config, now) ==
    IF key = OtherIp
    THEN LET next == [count |-> 1, resetAt |-> now + config.windowMs]
         IN  [store |-> IF Stale(store.others, now)
                        THEN [EvictStale(store, now) EXCEPT !.others = next]
                        ELSE cleanupRateLimitStore(
                                 [store EXCEPT !.others = [count |-> store.others.count + 1,
                                                           resetAt |-> next.resetAt]], now),
              allowed |-> TRUE, remaining |-> config.maxRequests - 1, resetAt |-> next.resetAt]
    ELSE LET entry == store.entries[key]
         IN  IF entry = NoLimitEntry \/ now >= entry.resetAt
             THEN LET next == [count |-> 1, resetAt |-> now + config.windowMs]
                  IN  [store |-> cleanupRateLimitStore([store EXCEPT !.entries[key] = next], now),
                       allowed |-> TRUE, remaining |-> config.maxRequests - 1,
                       resetAt |-> next.resetAt]
             ELSE LET bumped == [entry EXCEPT !.count = @ + 1]
                  IN  [store |-> cleanupRateLimitStore([store EXCEPT !.entries[key] = bumped], now),
                       allowed |-> bumped.count <= config.maxRequests,
                       remaining |-> IF config.maxRequests > bumped.count
                                     THEN config.maxRequests - bumped.count ELSE 0,
                       resetAt |-> bumped.resetAt]

\* The entries of the other clients can be counted under one resetAt when there is
\* none yet, when the new one gets the same resetAt, or when the old ones are stale
\* and the insertion evicts them.
OtherIpCountable(store, config, now) ==
    \/ store.others = NoLimitEntry
    \/ store.others.resetAt = now + config.windowMs
    \/ Stale(store.others, now) /\ RateLimitStoreSize(store) + 1 > RATE_LIMIT_STORE_MAX

\* parseJsonBody: the error it reports ("none" for null).
parseJsonBody(kind, jsonContentType) ==
    IF kind = "none" THEN "none"
    ELSE IF ~jsonContentType THEN "Unsupported content type."
    ELSE IF kind = "malformed" THEN "Invalid JSON payload."
    ELSE "none"

\* Variant: any key is accepted.
validatePayload_AnyKey(kind) == TRUE

\* validatePayload(body).ok for a body parseJsonBody accepted.
validatePayload(kind) == kind # "unexpected"

\* The handler's checks of the request's shape, in their order: the status it
\* answers with, or 0 where the request goes on to the rate limit.
RequestShapeStatus(method, originAllowed, body, jsonContentType) ==
    LET bodyError == parseJsonBody(body, jsonContentType)
    IN  IF method = "OPTIONS" THEN (IF originAllowed THEN 204 ELSE 403)
        ELSE IF ~originAllowed THEN 403
        ELSE IF method # "POST" THEN 405
        ELSE IF bodyError # "none"
             THEN (IF bodyError = "Unsupported content type." THEN 415 ELSE 400)
        ELSE IF ~validatePayload(body) THEN 400
        ELSE 0

\* Math.max(1, Math.ceil((resetAt - now) / 1000))
RetryAfter(resetAt, now) ==
    LET seconds == IF resetAt > now THEN (resetAt - now + 999) \div 1000 ELSE 0
    IN  IF seconds > 1 THEN seconds ELSE 1

NoRequest ==
    [method |-> "none", originAllowed |-> FALSE, body |-> "none", jsonContentType |-> FALSE,
     ip |-> "none", status |-> 0, retryAfter |-> 0]

\* ------------------------------------------------- client: useGoogleAuth.ts
\* Client times are in seconds (every constant of the hook is a whole number of
\* seconds; TLC's integers are 32-bit).

DEFAULT_ACCESS_TOKEN_LIFETIME_MINUTES == 50
ACCESS_TOKEN_LIFETIME == DEFAULT_ACCESS_TOKEN_LIFETIME_MINUTES * 60
DEFAULT_SESSION_DURATION_DAYS == 180
SESSION_DURATION == DEFAULT_SESSION_DURATION_DAYS * 24 * 60 * 60

Calls == 1..MaxCalls

\* The recurring session check: window.setInterval(checkSessionExpiry, 60 * 60 * 1000).
SESSION_CHECK_INTERVAL == 60 * 60

\* The instant of an earlier visit (what it stored is found at mount), the instant
\* the application starts (the earlier visit's token has run out by then), and the
\* instants the client clock visits: the last second before a multiple of the
\* session duration after the earlier visit, the second that completes it, and
\* the next run of the recurring check after that.
PreviousVisit == 1
AppStart == PreviousVisit + ACCESS_TOKEN_LIFETIME + 1
ClockInstants ==
    {AppStart} \cup {PreviousVisit + k * SESSION_DURATION + e :
                        k \in 1..MaxClientTicks, e \in {0 - 1, 0, SESSION_CHECK_INTERVAL}}

\* Token values: a newly issued token differs from the ones the hook holds.
Tokens == {1, 2, 3}
NewToken(c) == CHOOSE t \in Tokens :
                   /\ t \notin {c.accessToken, c.accessTokenRef}
                   /\ \A u \in Tokens : u < t => u \in {c.accessToken, c.accessTokenRef}

NoEntry == [token |-> Null, storedAt |-> Null, expiresAt |-> Null]

InitClientState ==
    [user |-> Null, accessToken |-> Null, accessTokenExpiresAt |-> Null,
     tokenExpired |-> FALSE, sessionStartMs |-> Null, loading |-> FALSE, error |-> "none",
     accessTokenRef |-> Null,
     lsToken |-> NoEntry, lsLegacyToken |-> NoEntry,
     lsSessionStart |-> Null, lsLegacySessionStart |-> Null,
     logoutsInFlight |-> 0,
     sessionCheck |-> [user |-> Null, sessionStartMs |-> Null, at |-> Null],
     storageEvent |-> "none"]

InitCall == [pc |-> "idle", interactive |-> FALSE, force |-> FALSE, result |-> Null,
             silentFailed |-> FALSE, loginFailed |-> FALSE,
             cached |-> FALSE]

\* parseStoredToken of a stored value; NoEntry stands for null.
parseStoredToken(raw) ==
    IF raw.token = Null \/ raw.storedAt = Null
    THEN NoEntry
    ELSE [token |-> raw.token, storedAt |-> raw.storedAt,
          expiresAt |-> IF raw.expiresAt # Null /\ raw.expiresAt > 0
                        THEN raw.expiresAt ELSE Null]

persistTokenEntry(c, entry) ==
    IF entry = NoEntry
    THEN [c EXCEPT !.lsToken = NoEntry, !.lsLegacyToken = NoEntry]
    ELSE [c EXCEPT !.lsToken = entry, !.lsLegacyToken = NoEntry]

fallbackExpiresAt(storedAt) == storedAt + ACCESS_TOKEN_LIFETIME

computeExpiresAt(storedAt, expiresInMs) ==
    IF expiresInMs # Null /\ expiresInMs > 0
    THEN storedAt + expiresInMs
    ELSE fallbackExpiresAt(storedAt)

\* Variant: a stored token is handed out whatever its age.
toTokenState_NoExpiry(entry, now) ==
    [token |-> entry.token,
     expiresAt |-> IF entry.expiresAt # Null THEN entry.expiresAt
                   ELSE fallbackExpiresAt(entry.storedAt)]

toTokenState(entry, now) ==
    LET expiresAt == IF entry.expiresAt # Null THEN entry.expiresAt
                     ELSE fallbackExpiresAt(entry.storedAt)
    IN  IF Truthy(expiresAt) /\ now > expiresAt
        THEN [token |-> Null, expiresAt |-> Null]
        ELSE [token |-> entry.token, expiresAt |-> expiresAt]

\* readStoredToken: the value it returns ...
readStoredToken(c, now) ==
    LET primary == parseStoredToken(c.lsToken)
        legacy == parseStoredToken(c.lsLegacyToken)
    IN  IF primary # NoEntry THEN toTokenState(primary, now)
        ELSE IF legacy # NoEntry THEN toTokenState(legacy, now)
        ELSE [token |-> Null, expiresAt |-> Null]

\* ... and the storage it leaves (a legacy entry still valid is copied forward).
readStoredTokenStore(c, now) ==
    LET primary == parseStoredToken(c.lsToken)
        legacy == parseStoredToken(c.lsLegacyToken)
    IN  IF primary = NoEntry /\ legacy # NoEntry /\ toTokenState(legacy, now).token # Null
        THEN persistTokenEntry(c, legacy)
        ELSE c

persistToken(c, token, now) ==
    IF token = Null
    THEN persistTokenEntry(c, NoEntry)
    ELSE persistTokenEntry(c, [token |-> token, storedAt |-> now,
                               expiresAt |-> fallbackExpiresAt(now)])

persistSessionStart(c, timestamp) ==
    IF ~Truthy(timestamp)
    THEN [c EXCEPT !.lsSessionStart = Null, !.lsLegacySessionStart = Null]
    ELSE [c EXCEPT !.lsSessionStart = timestamp, !.lsLegacySessionStart = Null]

\* parseSessionStart of a stored value: a finite number > 0, else null.
parseSessionStart(raw) == IF raw # Null /\ raw > 0 THEN raw ELSE Null

\* readSessionStart: the value it returns ...
readSessionStart(c) ==
    IF parseSessionStart(c.lsSessionStart) # Null
    THEN parseSessionStart(c.lsSessionStart)
    ELSE parseSessionStart(c.lsLegacySessionStart)

\* ... and the storage it leaves (a legacy value is copied forward).
readSessionStartStore(c) ==
    IF parseSessionStart(c.lsSessionStart) = Null
       /\ parseSessionStart(c.lsLegacySessionStart) # Null
    THEN persistSessionStart(c, parseSessionStart(c.lsLegacySessionStart))
    ELSE c

\* Variant: the session lives one instant longer.
isSessionExpired_Strict(sessionStartMs, now) == now - sessionStartMs > SESSION_DURATION

isSessionExpired(sessionStartMs, now) == now - sessionStartMs >= SESSION_DURATION

updateSessionStart(c, value) ==
    persistSessionStart([c EXCEPT !.sessionStartMs = value], value)

\* Variant: a null token also resets tokenExpired.
applyAccessToken_ClearsOnNull(c, token, now) ==
    IF token = Null
    THEN persistToken([c EXCEPT !.accessToken = Null, !.accessTokenExpiresAt = Null,
                                !.tokenExpired = FALSE],
                      Null, now)
    ELSE LET storedAt == now
             expiresAt == computeExpiresAt(storedAt, Null)
         IN  persistTokenEntry(
                 [c EXCEPT !.accessToken = token,
                           !.accessTokenExpiresAt = expiresAt,
                           !.tokenExpired = (Truthy(expiresAt) /\ storedAt >= expiresAt)],
                 [token |-> token, storedAt |-> storedAt, expiresAt |-> expiresAt])

\* Variant: a new token leaves tokenExpired as it was.
applyAccessToken_KeepsExpired(c, token, now) ==
    IF token = Null
    THEN persistToken([c EXCEPT !.accessToken = Null, !.accessTokenExpiresAt = Null],
                      Null, now)
    ELSE LET storedAt == now
             expiresAt == computeExpiresAt(storedAt, Null)
         IN  persistTokenEntry(
                 [c EXCEPT !.accessToken = token,
                           !.accessTokenExpiresAt = expiresAt],
                 [token |-> token, storedAt |-> storedAt, expiresAt |-> expiresAt])

\* Every caller passes no expiresInMs.
applyAccessToken(c, token, now) ==
    IF token = Null
    THEN persistToken([c EXCEPT !.accessToken = Null, !.accessTokenExpiresAt = Null],
                      Null, now)
    ELSE LET storedAt == now
             expiresAt == computeExpiresAt(storedAt, Null)
         IN  persistTokenEntry(
                 [c EXCEPT !.accessToken = token,
                           !.accessTokenExpiresAt = expiresAt,
                           !.tokenExpired = (Truthy(expiresAt) /\ storedAt >= expiresAt)],
                 [token |-> token, storedAt |-> storedAt, expiresAt |-> expiresAt])

expireToken(c, now) == [applyAccessToken(c, Null, now) EXCEPT !.tokenExpired = TRUE]

\* The hook's first render: the state it starts from and the storage it leaves.
useGoogleAuthInit(c, currentUser, now) ==
    LET stored == readStoredToken(c, now)
        c1 == readStoredTokenStore(c, now)
        c2 == readSessionStartStore(c1)
    IN  [c2 EXCEPT !.sessionStartMs = readSessionStart(c1),
                   !.user = currentUser,
                   !.accessToken = stored.token,
                   !.accessTokenExpiresAt = stored.expiresAt,
                   !.tokenExpired = FALSE,
                   !.loading = FALSE,
                   !.error = "none",
                   !.accessTokenRef = stored.token]

\* Variant: the finally block leaves the stored token in place.
forceSessionLogoutFinally_KeepsStoredToken(c, now) ==
    LET cleared == [c EXCEPT !.accessToken = Null, !.accessTokenExpiresAt = Null]
    IN  [updateSessionStart(cleared, Null) EXCEPT
            !.tokenExpired = FALSE, !.user = Null, !.loading = FALSE,
            !.error = "sessionExpired",
            !.logoutsInFlight = c.logoutsInFlight - 1]

\* forceSessionLogout up to its await.
forceSessionLogoutStart(c) == [c EXCEPT !.loading = TRUE, !.logoutsInFlight = @ + 1]

\* One session-expiry check: the session's age at the check and the verdict of
\* isSessionExpired.  Ages more than a second short of the session duration are
\* all recorded as 0.
SessionCheck(sessionStartMs, now) ==
    [age |-> IF now - sessionStartMs < SESSION_DURATION - 1 THEN 0 ELSE now - sessionStartMs,
     forced |-> isSessionExpired(sessionStartMs, now)]

\* The finally block of forceSessionLogout.
forceSessionLogoutFinally(c, now) ==
    LET cleared == persistToken([c EXCEPT !.accessToken = Null,
                                          !.accessTokenExpiresAt = Null], Null, now)
    IN  [updateSessionStart(cleared, Null) EXCEPT
            !.tokenExpired = FALSE, !.user = Null, !.loading = FALSE,
            !.error = "sessionExpired",
            !.logoutsInFlight = c.logoutsInFlight - 1]

\* shouldSendWebLoginEmail once getDoc has answered: "skip" (the device is known,
\* no request), "register" (go on to setDoc) or "notify" (the catch: send anyway).
shouldSendWebLoginEmail(existsDoc, readFailed) ==
    IF readFailed THEN "notify" ELSE IF existsDoc THEN "skip" ELSE "register"

\* refreshAccessToken's decision before any await: does this call start
\* trySilentRefresh (a network refresh) or return accessTokenRef.current as is?
refreshStartsNetwork(native, interactive, force, current) ==
    native /\ (interactive \/ force \/ current = Null)

\* Variant: after a failed silent refresh every call goes on to SocialLogin.login.
afterSilentFailure_Prompts(interactive) == "login"

\* refreshAccessToken after trySilentRefresh returned null: the interactive path
\* goes on to SocialLogin.login, the other returns accessTokenRef.current.
afterSilentFailure(interactive) == IF interactive THEN "login" ELSE "done"

\* Variant: a login that yields no token returns null.
loginResult_NullOnFailure(outcome, token, current) ==
    IF outcome = "token" THEN token ELSE Null

\* What the interactive path returns once SocialLogin.login has settled: the new
\* token, or accessTokenRef.current where the login threw or gave no usable token.
loginResult(outcome, token, current) ==
    IF outcome = "token" THEN token ELSE current

\* getAccessToken's decision: return the cached token, or go to refreshAccessToken.
getAccessTokenRefreshes(native, forceRefresh, current) ==
    native /\ (forceRefresh \/ current = Null)

\* ------------------------------------------------------------------- state

InitEmailState ==
    [exists |-> FALSE, welcomeSent |-> FALSE, lastAuthEventTime |-> Null,
     lastLoginEmailAt |-> Null,
     emailEvents |-> [welcome |-> NoEvent, login |-> NoEvent]]

InitInv ==
    [pc |-> "idle", authTimeMs |-> Null, now |-> Null, plan |-> NoPlan, cur |-> "welcome",
     welcomeEvent |-> NoEvent, loginEvent |-> NoEvent,
     sentWelcome |-> FALSE, sentLogin |-> FALSE,
     sendFailed |-> FALSE, dupAtStart |-> FALSE, reclaimed |-> FALSE,
     response |-> NoResponse]

\* No tab is reading the stored keys step by step.
NoMigration == [start |-> InitClientState, tabs |-> <<>>]

\* What the hook's mount found in the token keys and what readStoredToken returned.
MountRecord(c, now) ==
    [done |-> TRUE, lsToken |-> c.lsToken, lsLegacyToken |-> c.lsLegacyToken, now |-> now,
     stored |-> readStoredToken(c, now)]

NotMounted ==
    [done |-> FALSE, lsToken |-> NoEntry, lsLegacyToken |-> NoEntry, now |-> Null,
     stored |-> [token |-> Null, expiresAt |-> Null]]

\* What an earlier visit with an older build left behind: a token entry and a
\* session start under the legacy keys, and the identity SDK's persisted user.
ReturningStorage ==
    [InitClientState EXCEPT
        !.lsLegacyToken = [token |-> 1, storedAt |-> PreviousVisit, expiresAt |-> Null],
        !.lsLegacySessionStart = PreviousVisit]

\* The rest of the client at the application's start.
ClientIdle ==
    /\ authNotify = TRUE
    /\ deviceDoc = FALSE
    /\ signInPc = "idle"
    /\ calls = [k \in Calls |-> InitCall]
    /\ refreshCalls = 0
    /\ signIns = <<>>
    /\ sessionChecks = {}
    /\ expiredOnce = FALSE
    /\ migration = NoMigration

\* The client as the hook's first render leaves it: nothing stored, nobody signed in.
ClientFresh ==
    /\ cNow = AppStart
    /\ client = useGoogleAuthInit(InitClientState, Null, AppStart)
    /\ mount = MountRecord(InitClientState, AppStart)
    /\ authUser = Null
    /\ ClientIdle

\* The client of a returning user as the hook's first render leaves it.
ClientReturning ==
    /\ cNow = AppStart
    /\ client = useGoogleAuthInit(ReturningStorage, Null, AppStart)
    /\ mount = MountRecord(ReturningStorage, AppStart)
    /\ authUser = 1
    /\ ClientIdle

\* One serverless instance that has served no request yet.
DefenceFresh ==
    /\ rateLimitStore = InitRateLimitStore
    /\ rlNow = FirstRequestAt
    /\ reqLog = <<>>
    /\ lastResponse = NoRequest

DispatcherFresh ==
    /\ emailState = InitEmailState
    /\ inv = [i \in Invs |-> InitInv]
    /\ clock = 0
    /\ sendLog = {}
    /\ recorded = {}
    /\ firstClaimer = Null

Init ==
    /\ DispatcherFresh
    /\ loginCooldownMs \in {1000 * s : s \in CooldownSecondsInputs}
    /\ isNative = FALSE
    /\ ClientFresh
    /\ DefenceFresh

\* --------------------------------------------------------- handler actions

LocalEvent(r, type) == IF type = "welcome" THEN r.welcomeEvent ELSE r.loginEvent

Respond(r, status, skipped) ==
    [r EXCEPT !.pc = "done",
              !.response = [status |-> status, skipped |-> skipped,
                            sentWelcome |-> (~skipped /\ status = 200 /\ r.sentWelcome),
                            sentLogin |-> (~skipped /\ status = 200 /\ r.sentLogin)]]

\* Where the handler goes once the block of event type r.cur ended without a throw:
\* the login block after the welcome block, then the merge write when something was
\* sent, else straight to the 200 response.
AfterBlock(r) ==
    IF r.cur = "welcome" /\ r.plan.shouldSendLogin
    THEN [r EXCEPT !.cur = "login", !.pc = "claim"]
    ELSE IF r.sentWelcome \/ r.sentLogin
         THEN [r EXCEPT !.pc = "record"]
         ELSE Respond(r, 200, FALSE)

\* A verified request enters the handler: authTimeMs from the assertion, now from
\* the clock.  Invocations are numbered in the order they start.
Enter(i, authTimes) ==
    /\ inv[i].pc = "idle"
    /\ \A j \in Invs : j < i => inv[j].pc # "idle"
    /\ \E authTime \in authTimes, d \in {0, 1} :
        /\ clock + d <= MaxTicks
        /\ clock' = clock + d
        /\ inv' = [inv EXCEPT ![i] =
                [@ EXCEPT !.pc = "load",
                          !.authTimeMs = AuthTimeMsOf(authTime),
                          !.now = NowMs(clock + d),
                          !.dupAtStart =
                              /\ authTime # Null
                              /\ \E a \in recorded : a # Null /\ AuthTimeMsOf(authTime) <= a]]

StartFrom(i, authTimes) ==
    /\ Enter(i, authTimes)
    /\ UNCHANGED <<defenceVars, clientAux, clientVars, emailState, loginCooldownMs, sendLog, recorded, firstClaimer>>

Start(i) == StartFrom(i, AuthTimeInputs)

\* stateRef.get(), computeEmailPlan, and the skipped short-circuit.
LoadAndPlan(i) ==
    /\ inv[i].pc = "load"
    /\ LET plan == computeEmailPlan(emailState, inv[i].now, inv[i].authTimeMs, loginCooldownMs)
           r == [inv[i] EXCEPT !.plan = plan]
       IN  inv' = [inv EXCEPT ![i] =
                IF ~plan.shouldSendWelcome /\ ~plan.shouldSendLogin
                THEN Respond(r, 200, TRUE)
                ELSE [r EXCEPT !.pc = "claim",
                               !.cur = IF plan.shouldSendWelcome THEN "welcome" ELSE "login"]]
    /\ UNCHANGED <<defenceVars, clientAux, clientVars, emailState, clock, loginCooldownMs, sendLog, recorded, firstClaimer>>

\* The claim transaction of the current event type, committed atomically.
Claim(i) ==
    /\ inv[i].pc = "claim"
    /\ LET type == inv[i].cur
           c == claimEmailEventInState(emailState, type, inv[i].authTimeMs, inv[i].now)
       IN  IF c.claimed
           THEN /\ emailState' = [emailState EXCEPT !.exists = TRUE,
                                                    !.emailEvents[type] = c.event]
                /\ inv' = [inv EXCEPT ![i] =
                        LET reclaim == /\ emailState.emailEvents[type].eventId = c.eventId
                                       /\ emailState.emailEvents[type].status = "failed"
                        IN  IF type = "welcome"
                            THEN [@ EXCEPT !.pc = "send", !.welcomeEvent = c.event,
                                           !.reclaimed = reclaim]
                            ELSE [@ EXCEPT !.pc = "send", !.loginEvent = c.event,
                                           !.reclaimed = reclaim]]
                /\ firstClaimer' = IF firstClaimer = Null THEN i ELSE firstClaimer
           ELSE /\ inv' = [inv EXCEPT ![i] = AfterBlock(@)]
                /\ UNCHANGED <<emailState, firstClaimer>>
    /\ UNCHANGED <<defenceVars, clientAux, clientVars, clock, loginCooldownMs, sendLog, recorded>>

\* sendBrevoEmail resolves: the provider accepted the email.
SendOk(i) ==
    /\ inv[i].pc = "send"
    /\ LET type == inv[i].cur
           r == IF type = "welcome" THEN [inv[i] EXCEPT !.sentWelcome = TRUE]
                                    ELSE [inv[i] EXCEPT !.sentLogin = TRUE]
       IN  /\ inv' = [inv EXCEPT ![i] = AfterBlock(r)]
           /\ sendLog' = sendLog \cup {[inv |-> i, type |-> type, authTimeMs |-> inv[i].authTimeMs]}
    /\ UNCHANGED <<defenceVars, clientAux, clientVars, emailState, clock, loginCooldownMs, recorded, firstClaimer>>

\* sendBrevoEmail rejects: the inner catch is entered.
SendFail(i) ==
    /\ inv[i].pc = "send"
    /\ inv' = [inv EXCEPT ![i] = [@ EXCEPT !.pc = "markFailed", !.sendFailed = TRUE]]
    /\ UNCHANGED <<defenceVars, clientAux, clientVars, emailState, clock, loginCooldownMs, sendLog, recorded, firstClaimer>>

\* The inner catch: merge-write the entry as failed, rethrow, outer catch answers 502.
MarkFailed(i) ==
    /\ inv[i].pc = "markFailed"
    /\ LET type == inv[i].cur
       IN  emailState' = [emailState EXCEPT
                !.exists = TRUE,
                !.emailEvents[type] = buildEventUpdate(LocalEvent(inv[i], type), "failed")]
    /\ inv' = [inv EXCEPT ![i] = Respond(@, 502, FALSE)]
    /\ UNCHANGED <<defenceVars, clientAux, clientVars, clock, loginCooldownMs, sendLog, recorded, firstClaimer>>

\* The final merge write of the top-level fields and the sent entries, then 200.
Record(i) ==
    /\ inv[i].pc = "record"
    /\ LET r == inv[i]
           updates == buildEmailStateUpdates(emailState, r.now, r.authTimeMs,
                                             r.sentWelcome, r.sentLogin)
           ev == [type \in EventTypes |->
                    IF type = "welcome" /\ r.sentWelcome /\ r.welcomeEvent # NoEvent
                    THEN buildEventUpdate(r.welcomeEvent, "sent")
                    ELSE IF type = "login" /\ r.sentLogin /\ r.loginEvent # NoEvent
                    THEN buildEventUpdate(r.loginEvent, "sent")
                    ELSE emailState.emailEvents[type]]
       IN  emailState' = [updates EXCEPT !.emailEvents = ev]
    /\ inv' = [inv EXCEPT ![i] = Respond(@, 200, FALSE)]
    /\ recorded' = recorded \cup {inv[i].authTimeMs}
    /\ UNCHANGED <<defenceVars, clientAux, clientVars, clock, loginCooldownMs, sendLog, firstClaimer>>

Next ==
    \E i \in Invs :
        \/ Start(i)
        \/ LoadAndPlan(i)
        \/ Claim(i)
        \/ SendOk(i)
        \/ SendFail(i)
        \/ MarkFailed(i)
        \/ Record(i)

Spec == Init /\ [][Next]_vars

\* Sign-ins at distinct instants: a request carries one of two auth times, both
\* before the handler's clock, or none.
LaterAuthTimeSeconds == {3600 * k : k \in 1..(MaxAuthStep + 1)}
LaterAuthTimeInputs == LaterAuthTimeSeconds \cup {Null}

StartLater(i) == StartFrom(i, LaterAuthTimeInputs)

NextOrder ==
    \E i \in Invs :
        \/ StartLater(i)
        \/ LoadAndPlan(i)
        \/ Claim(i)
        \/ SendOk(i)
        \/ SendFail(i)
        \/ MarkFailed(i)
        \/ Record(i)

SpecOrder == Init /\ [][NextOrder]_vars

\* The state store rejecting a call.  stateRef.get() rejects: the outer catch
\* answers 500.
LoadFails(i) ==
    /\ inv[i].pc = "load"
    /\ inv' = [inv EXCEPT ![i] = Respond(@, 500, FALSE)]
    /\ UNCHANGED <<defenceVars, clientAux, clientVars, emailState, clock, loginCooldownMs,
                   sendLog, recorded, firstClaimer>>

\* The claim transaction rejects: nothing is written, the catch around the two
\* blocks answers 502.
ClaimFails(i) ==
    /\ inv[i].pc = "claim"
    /\ inv' = [inv EXCEPT ![i] = Respond(@, 502, FALSE)]
    /\ UNCHANGED <<defenceVars, clientAux, clientVars, emailState, clock, loginCooldownMs,
                   sendLog, recorded, firstClaimer>>

\* The inner catch's stateRef.set rejects: its error leaves the inner catch in
\* place of the send error and the catch around the two blocks answers 502.
MarkFailedFails(i) ==
    /\ inv[i].pc = "markFailed"
    /\ inv' = [inv EXCEPT ![i] = Respond(@, 502, FALSE)]
    /\ UNCHANGED <<defenceVars, clientAux, clientVars, emailState, clock, loginCooldownMs,
                   sendLog, recorded, firstClaimer>>

\* The final stateRef.set rejects: the outer catch answers 500.
RecordFails(i) ==
    /\ inv[i].pc = "record"
    /\ inv' = [inv EXCEPT ![i] = Respond(@, 500, FALSE)]
    /\ UNCHANGED <<defenceVars, clientAux, clientVars, emailState, clock, loginCooldownMs,
                   sendLog, recorded, firstClaimer>>

NextStoreFails ==
    \E i \in Invs :
        \/ Start(i)
        \/ LoadAndPlan(i)
        \/ LoadFails(i)
        \/ Claim(i)
        \/ ClaimFails(i)
        \/ SendOk(i)
        \/ SendFail(i)
        \/ MarkFailed(i)
        \/ MarkFailedFails(i)
        \/ Record(i)
        \/ RecordFails(i)

SpecStoreFails == Init /\ [][NextStoreFails]_vars

\* computeEmailPlan on its own: the handler's first invocation has read its
\* inputs, the stored state is any state the final write can have left, and the
\* one step is the plan.
StoredInstants == {Null} \cup {AuthTimeMsOf(a) : a \in LaterAuthTimeSeconds}
StoredSendTimes == {Null} \cup {NowMs(t) : t \in 0..MaxTicks}
PlanAuthTimes == AuthTimeInputs \cup LaterAuthTimeSeconds

InitPlan ==
    /\ \E welcomeSent \in BOOLEAN, lastAuthEventTime \in StoredInstants,
          lastLoginEmailAt \in StoredSendTimes :
            /\ ~welcomeSent => lastAuthEventTime = Null /\ lastLoginEmailAt = Null
            /\ emailState = [InitEmailState EXCEPT
                            !.exists = TRUE,
                            !.welcomeSent = welcomeSent,
                            !.lastAuthEventTime = lastAuthEventTime,
                            !.lastLoginEmailAt = lastLoginEmailAt]
    /\ \E authTime \in PlanAuthTimes, t \in 0..MaxTicks :
          /\ clock = t
          /\ inv = [i \in Invs |->
                      IF i = 1
                      THEN [InitInv EXCEPT !.pc = "load",
                                           !.authTimeMs = AuthTimeMsOf(authTime),
                                           !.now = NowMs(t)]
                      ELSE InitInv]
    /\ loginCooldownMs \in {1000 * s : s \in CooldownSecondsInputs}
    /\ sendLog = {}
    /\ recorded = {}
    /\ firstClaimer = Null
    /\ isNative = FALSE
    /\ ClientFresh
    /\ DefenceFresh

NextPlan == \E i \in Invs : LoadAndPlan(i)

SpecPlan == InitPlan /\ [][NextPlan]_vars

\* Sequential, provider accepting: one request at a time, every send accepted.
StartSeq(i) ==
    /\ \A j \in Invs : inv[j].pc \in {"idle", "done"}
    /\ Start(i)

NextE2E ==
    \E i \in Invs :
        \/ StartSeq(i)
        \/ LoadAndPlan(i)
        \/ Claim(i)
        \/ SendOk(i)
        \/ Record(i)

SpecE2E == Init /\ [][NextE2E]_vars

\* ------------------------------------------------- request defence actions

\* The instance's clock moves on.
RateTick ==
    /\ \E t \in RateInstants : t > rlNow /\ rlNow' = t
    /\ UNCHANGED <<dispatcherVars, clientVars, clientAux, rateLimitStore, reqLog, lastResponse>>

\* The handler from its entry to the rate limit: CORS, method, body, payload,
\* checkRateLimit.  Status 0 stands for a request that goes on to the captcha.
Defend(method, originAllowed, body, jsonContentType, ip) ==
    LET rateLimit == checkRateLimit(rateLimitStore, ip, getRateLimitConfig, rlNow)
        early == RequestShapeStatus(method, originAllowed, body, jsonContentType)
        answer(status, retryAfter) ==
            [method |-> method, originAllowed |-> originAllowed, body |-> body,
             jsonContentType |-> jsonContentType, ip |-> ip,
             status |-> status, retryAfter |-> retryAfter]
    IN  IF early # 0
        THEN /\ lastResponse' = answer(early, 0)
             /\ UNCHANGED <<rateLimitStore, reqLog>>
        ELSE /\ ip = OtherIp => OtherIpCountable(rateLimitStore, getRateLimitConfig, rlNow)
             /\ ip # OtherIp => Len(reqLog) < MaxRequests
             /\ rateLimitStore' = rateLimit.store
             /\ lastResponse' =
                    IF rateLimit.allowed THEN answer(0, 0)
                    ELSE answer(429, RetryAfter(rateLimit.resetAt, rlNow))
             /\ reqLog' =
                    IF ip = OtherIp THEN reqLog
                    ELSE Append(reqLog, [ip |-> ip, at |-> rlNow,
                                         allowed |-> rateLimit.allowed,
                                         retryAfter |-> IF rateLimit.allowed THEN 0
                                                        ELSE RetryAfter(rateLimit.resetAt, rlNow)])

\* Variant: a failed captcha does not stop the request.
IdentityStatus_IgnoresCaptcha(captchaOk, bearer, tokenValid, hasEmail) ==
    IF ~bearer THEN 401
    ELSE IF ~tokenValid THEN 401
    ELSE IF ~hasEmail THEN 400
    ELSE 0

\* The handler from the captcha to the decoded assertion: verifyCaptcha,
\* getBearerToken, verifyIdToken, decoded.email.  0 stands for a request that
\* goes on to the email state.
IdentityStatus(captchaOk, bearer, tokenValid, hasEmail) ==
    IF ~captchaOk THEN 403
    ELSE IF ~bearer THEN 401
    ELSE IF ~tokenValid THEN 401
    ELSE IF ~hasEmail THEN 400
    ELSE 0

\* The client's request, and the requests that differ from it in one respect.
CleanRequest ==
    [method |-> "POST", originAllowed |-> TRUE, body |-> "none", jsonContentType |-> FALSE,
     captchaOk |-> TRUE, bearer |-> TRUE, tokenValid |-> TRUE, hasEmail |-> TRUE]

GateRequests ==
    {CleanRequest,
     [CleanRequest EXCEPT !.method = "GET"],
     [CleanRequest EXCEPT !.method = "OPTIONS"],
     [CleanRequest EXCEPT !.originAllowed = FALSE],
     [CleanRequest EXCEPT !.body = "valid"],
     [CleanRequest EXCEPT !.body = "malformed", !.jsonContentType = TRUE],
     [CleanRequest EXCEPT !.body = "unexpected", !.jsonContentType = TRUE],
     [CleanRequest EXCEPT !.captchaOk = FALSE],
     [CleanRequest EXCEPT !.bearer = FALSE],
     [CleanRequest EXCEPT !.tokenValid = FALSE],
     [CleanRequest EXCEPT !.hasEmail = FALSE]}

\* One request through the whole handler entry: the request defences, the
\* identity steps, and, for a request none of them answered, the handler body
\* as invocation i.  Requests come from one address and are handled one at a
\* time.
Arrive(i) ==
    /\ \A j \in Invs : inv[j].pc \in {"idle", "done"}
    /\ inv[i].pc = "idle"
    /\ \A j \in Invs : j < i => inv[j].pc # "idle"
    /\ \E req \in GateRequests :
        LET ip == CHOOSE observed \in ObservedIps : TRUE
            early == RequestShapeStatus(req.method, req.originAllowed, req.body,
                                        req.jsonContentType)
            rateLimit == checkRateLimit(rateLimitStore, ip, getRateLimitConfig, rlNow)
            status == IF early # 0 THEN early
                      ELSE IF ~rateLimit.allowed THEN 429
                      ELSE IdentityStatus(req.captchaOk, req.bearer, req.tokenValid,
                                          req.hasEmail)
            retryAfter == IF early = 0 /\ ~rateLimit.allowed
                          THEN RetryAfter(rateLimit.resetAt, rlNow) ELSE 0
        IN  /\ early = 0 => Len(reqLog) < MaxRequests
            /\ rateLimitStore' = IF early # 0 THEN rateLimitStore ELSE rateLimit.store
            /\ reqLog' = IF early # 0 THEN reqLog
                          ELSE Append(reqLog, [ip |-> ip, at |-> rlNow,
                                               allowed |-> rateLimit.allowed,
                                               retryAfter |-> retryAfter])
            /\ lastResponse' = [request |-> req, ip |-> ip, limited |-> (early = 0 /\ ~rateLimit.allowed),
                                 status |-> status, retryAfter |-> retryAfter]
            /\ IF status = 0
               THEN Enter(i, AuthTimeInputs)
               ELSE UNCHANGED <<inv, clock>>
    /\ UNCHANGED <<clientAux, clientVars, rlNow, emailState, loginCooldownMs, sendLog,
                   recorded, firstClaimer>>

NextGate ==
    \E i \in Invs :
        \/ Arrive(i)
        \/ LoadAndPlan(i)
        \/ Claim(i)
        \/ SendOk(i)
        \/ SendFail(i)
        \/ MarkFailed(i)
        \/ Record(i)

SpecGate == Init /\ [][NextGate]_vars

\* A request of one of the observed clients, of any shape.
DefendObserved ==
    /\ \E method \in Methods, originAllowed \in BOOLEAN, body \in BodyKinds,
          jsonContentType \in BOOLEAN, ip \in ObservedIps :
            Defend(method, originAllowed, body, jsonContentType, ip)
    /\ UNCHANGED <<dispatcherVars, clientVars, clientAux, rlNow>>

\* What the client sends (notifyAuthEmail): a POST without a body from an allowed
\* origin, carrying the one user's ID token, from either address.
DefendClient ==
    /\ \E ip \in ObservedIps : Defend("POST", TRUE, "none", FALSE, ip)
    /\ UNCHANGED <<dispatcherVars, clientVars, clientAux, rlNow>>

\* The same request from a client the store holds no entry for.
DefendOther ==
    /\ rateLimitStore.others.count <= RATE_LIMIT_STORE_MAX
    /\ Defend("POST", TRUE, "none", FALSE, OtherIp)
    /\ UNCHANGED <<dispatcherVars, clientVars, clientAux, rlNow>>

InitDefence ==
    /\ DispatcherFresh
    /\ loginCooldownMs = 0
    /\ isNative = FALSE
    /\ ClientFresh
    /\ DefenceFresh

\* Requests of every shape at one instant.
NextDefence == DefendObserved
SpecDefence == InitDefence /\ [][NextDefence]_vars

\* The client's requests over the windows.
NextRateLimit == RateTick \/ DefendClient
SpecRateLimit == InitDefence /\ [][NextRateLimit]_vars

\* Many clients.
NextRateStore == RateTick \/ DefendOther
SpecRateStore == InitDefence /\ [][NextRateStore]_vars


\* ---------------------------------------------------------- client actions

ClientTick ==
    /\ \E t \in ClockInstants : t > cNow /\ cNow' = t
    /\ UNCHANGED <<defenceVars, clientAux, dispatcherVars, isNative, client, authUser, authNotify, deviceDoc,
                   signInPc, calls, refreshCalls, signIns>>

\* The effect that copies the accessToken state into accessTokenRef after a render.
SyncRef ==
    /\ client.accessTokenRef # client.accessToken
    /\ client' = [client EXCEPT !.accessTokenRef = client.accessToken]
    /\ UNCHANGED <<defenceVars, clientAux, dispatcherVars, isNative, authUser, authNotify, deviceDoc, cNow,
                   signInPc, calls, refreshCalls, signIns>>

\* The onAuthStateChanged listener.
OnAuthStateChanged ==
    /\ authNotify
    /\ authNotify' = FALSE
    /\ IF authUser # Null
       THEN LET stored == readSessionStart(client)
                c == readSessionStartStore(client)
            IN  IF stored = Null
                THEN /\ client' = [updateSessionStart(c, cNow) EXCEPT !.user = authUser]
                     /\ UNCHANGED sessionChecks
                ELSE /\ client' = IF isSessionExpired(stored, cNow)
                                  THEN forceSessionLogoutStart(c)
                                  ELSE [c EXCEPT !.user = authUser]
                     /\ sessionChecks' = sessionChecks \cup {SessionCheck(stored, cNow)}
       ELSE /\ client' = updateSessionStart(
                              persistToken([client EXCEPT !.user = Null,
                                                          !.accessToken = Null,
                                                          !.accessTokenExpiresAt = Null],
                                           Null, cNow),
                              Null)
            /\ UNCHANGED sessionChecks
    /\ UNCHANGED <<defenceVars, dispatcherVars, mount, expiredOnce, migration, isNative, authUser,
                   deviceDoc, cNow, signInPc, calls, refreshCalls, signIns>>

\* checkSessionExpiry, the callback of the session effect.
checkSessionExpiry(c, now) ==
    IF isSessionExpired(c.sessionStartMs, now) THEN forceSessionLogoutStart(c) ELSE c

\* checkExpiry, the callback of the token effect.
checkExpiry(c, now) ==
    IF now >= c.accessTokenExpiresAt THEN expireToken(c, now) ELSE c

\* The session effect's check, run when the effect is set up for a new (user,
\* sessionStartMs) and then once per interval.
CheckSessionExpiry ==
    /\ client.user # Null /\ Truthy(client.sessionStartMs)
    /\ \/ client.sessionCheck.user # client.user
       \/ client.sessionCheck.sessionStartMs # client.sessionStartMs
       \/ cNow - client.sessionCheck.at >= SESSION_CHECK_INTERVAL
    /\ LET c == [client EXCEPT !.sessionCheck = [user |-> client.user,
                                                 sessionStartMs |-> client.sessionStartMs,
                                                 at |-> cNow]]
       IN  client' = checkSessionExpiry(c, cNow)
    /\ sessionChecks' = sessionChecks \cup {SessionCheck(client.sessionStartMs, cNow)}
    /\ UNCHANGED <<defenceVars, dispatcherVars, mount, expiredOnce, migration, isNative, authUser,
                   authNotify, deviceDoc, cNow, signInPc, calls, refreshCalls, signIns>>

\* The token effect's check (web only), run when the effect is set up and then
\* every TOKEN_EXPIRY_POLL_MS: a token past its expiry is expired.
CheckExpiry ==
    /\ ~isNative
    /\ client.user # Null /\ client.accessToken # Null /\ Truthy(client.accessTokenExpiresAt)
    /\ cNow >= client.accessTokenExpiresAt
    /\ client' = checkExpiry(client, cNow)
    /\ expiredOnce' = TRUE
    /\ UNCHANGED <<defenceVars, dispatcherVars, sessionChecks, mount, migration, isNative, authUser,
                   authNotify, deviceDoc, cNow, signInPc, calls, refreshCalls, signIns>>

\* clearTokenExpired from the token-expired dialog (shown while tokenExpired).
ClearTokenExpired ==
    /\ client.tokenExpired
    /\ client' = [client EXCEPT !.tokenExpired = FALSE]
    /\ UNCHANGED <<defenceVars, clientAux, dispatcherVars, isNative, authUser, authNotify,
                   deviceDoc, cNow, signInPc, calls, refreshCalls, signIns>>

\* forceSessionLogout: the identity provider's sign-out settles, then the finally block.
ForceLogoutSettles ==
    /\ client.logoutsInFlight > 0
    /\ \E ok \in BOOLEAN :
        /\ authUser' = IF ok THEN Null ELSE authUser
        /\ authNotify' = (authNotify \/ (ok /\ authUser # Null))
    /\ client' = forceSessionLogoutFinally(client, cNow)
    /\ UNCHANGED <<defenceVars, clientAux, dispatcherVars, isNative, deviceDoc, cNow, signInPc, calls,
                   refreshCalls, signIns>>

\* signIn() from the sign-in button or the token-expired dialog (both disabled
\* while loading).
SignInStart ==
    /\ signInPc = "idle"
    /\ ~client.loading
    /\ client.user = Null \/ client.accessToken = Null \/ client.tokenExpired
    /\ Len(signIns) < MaxSignIns
    /\ client' = [client EXCEPT !.loading = TRUE, !.error = "none"]
    /\ signInPc' = IF isNative THEN "nativeLogin" ELSE "popup"
    /\ UNCHANGED <<defenceVars, clientAux, dispatcherVars, isNative, authUser, authNotify, deviceDoc, cNow, calls,
                   refreshCalls, signIns>>

SignInFailed(c) == [c EXCEPT !.error = "signInFailed", !.loading = FALSE]

\* Web: signInWithPopup settles; on success the token and the session start are
\* applied and the device gate is awaited.
SignInPopup ==
    /\ signInPc = "popup"
    /\ \E ok \in BOOLEAN, hasToken \in BOOLEAN :
        IF ok
        THEN /\ authUser' = 1
             /\ authNotify' = (authNotify \/ authUser # 1)
             /\ LET token == IF hasToken THEN NewToken(client) ELSE Null
                IN  client' = updateSessionStart(applyAccessToken(client, token, cNow), cNow)
             /\ signInPc' = "gateRead"
        ELSE /\ client' = SignInFailed(client)
             /\ signInPc' = "idle"
             /\ UNCHANGED <<authUser, authNotify>>
    /\ UNCHANGED <<defenceVars, clientAux, dispatcherVars, isNative, deviceDoc, cNow, calls, refreshCalls, signIns>>

\* signIn's tail: notifyAuthEmail fires the request or not; finally setLoading(false).
SignInFinish(notified) ==
    /\ signIns' = Append(signIns, [native |-> isNative, notified |-> notified])
    /\ client' = [client EXCEPT !.loading = FALSE]
    /\ signInPc' = "idle"

\* Web: getDoc of the device document answers.
SignInGateRead ==
    /\ signInPc = "gateRead"
    /\ \E readFailed \in BOOLEAN :
        LET verdict == shouldSendWebLoginEmail(deviceDoc, readFailed)
        IN  IF verdict = "register"
            THEN /\ signInPc' = "gateWrite"
                 /\ UNCHANGED <<client, signIns>>
            ELSE SignInFinish(verdict = "notify")
    /\ UNCHANGED <<defenceVars, clientAux, dispatcherVars, isNative, authUser, authNotify, deviceDoc, cNow, calls,
                   refreshCalls>>

\* Web: setDoc of the device document settles; either way the request is fired.
SignInGateWrite ==
    /\ signInPc = "gateWrite"
    /\ \E ok \in BOOLEAN : deviceDoc' = (deviceDoc \/ ok)
    /\ SignInFinish(TRUE)
    /\ UNCHANGED <<defenceVars, clientAux, dispatcherVars, isNative, authUser, authNotify, cNow, calls, refreshCalls>>

\* Native: SocialLogin.login settles (a usable online response with an ID token, or not).
SignInNativeLogin ==
    /\ signInPc = "nativeLogin"
    /\ \E ok \in BOOLEAN :
        IF ok
        THEN signInPc' = "credential" /\ UNCHANGED client
        ELSE signInPc' = "idle" /\ client' = SignInFailed(client)
    /\ UNCHANGED <<defenceVars, clientAux, dispatcherVars, isNative, authUser, authNotify, deviceDoc, cNow, calls,
                   refreshCalls, signIns>>

\* Native: signInWithCredential settles; on success the request is always fired.
SignInNativeCredential ==
    /\ signInPc = "credential"
    /\ \E ok \in BOOLEAN, hasToken \in BOOLEAN :
        IF ok
        THEN /\ authUser' = 1
             /\ authNotify' = (authNotify \/ authUser # 1)
             /\ LET token == IF hasToken THEN NewToken(client) ELSE Null
                IN  client' = [updateSessionStart(applyAccessToken(client, token, cNow), cNow)
                                  EXCEPT !.loading = FALSE]
             /\ signIns' = Append(signIns, [native |-> TRUE, notified |-> TRUE])
             /\ signInPc' = "idle"
        ELSE /\ client' = SignInFailed(client)
             /\ signInPc' = "idle"
             /\ UNCHANGED <<authUser, authNotify, signIns>>
    /\ UNCHANGED <<defenceVars, clientAux, dispatcherVars, isNative, deviceDoc, cNow, calls, refreshCalls>>

\* signOut() from the sign-out button.
SignOutStart ==
    /\ signInPc = "idle"
    /\ ~client.loading
    /\ client.user # Null /\ client.accessToken # Null
    /\ client' = [client EXCEPT !.loading = TRUE]
    /\ signInPc' = "signOut"
    /\ UNCHANGED <<defenceVars, clientAux, dispatcherVars, isNative, authUser, authNotify, deviceDoc, cNow, calls,
                   refreshCalls, signIns>>

\* The identity provider's sign-out settles; a rejection skips the clearing.
SignOutSettles ==
    /\ signInPc = "signOut"
    /\ \E ok \in BOOLEAN :
        IF ok
        THEN /\ authUser' = Null
             /\ authNotify' = (authNotify \/ authUser # Null)
             /\ client' = [updateSessionStart(applyAccessToken(client, Null, cNow), Null)
                              EXCEPT !.error = "none", !.tokenExpired = FALSE,
                                     !.loading = FALSE]
        ELSE /\ client' = [client EXCEPT !.loading = FALSE]
             /\ UNCHANGED <<authUser, authNotify>>
    /\ signInPc' = "idle"
    /\ UNCHANGED <<defenceVars, clientAux, dispatcherVars, isNative, deviceDoc, cNow, calls, refreshCalls, signIns>>


\* A call's way out: refreshAccessToken / getAccessToken return `value`.
Return(k, value) == [calls EXCEPT ![k] = [@ EXCEPT !.pc = "done", !.result = value]]

\* Calls are numbered in the order they are made.
CallFree(k) ==
    /\ calls[k].pc = "idle"
    /\ \A j \in Calls : j < k => calls[j].pc # "idle"

\* refreshAccessToken up to its first await.
EnterRefresh(k, interactive, force) ==
    IF refreshStartsNetwork(isNative, interactive, force, client.accessTokenRef)
    THEN /\ calls' = [calls EXCEPT ![k] = [@ EXCEPT !.pc = "refresh",
                                                    !.interactive = interactive,
                                                    !.force = force]]
         /\ refreshCalls' = refreshCalls + 1
    ELSE /\ calls' = Return(k, client.accessTokenRef)
         /\ UNCHANGED refreshCalls

\* getAccessToken(options) called by the application.
GetAccessToken(k) ==
    /\ CallFree(k)
    /\ \E interactive \in BOOLEAN, forceRefresh \in BOOLEAN :
        IF getAccessTokenRefreshes(isNative, forceRefresh, client.accessTokenRef)
        THEN EnterRefresh(k, interactive, forceRefresh)
        ELSE /\ calls' = [calls EXCEPT ![k] = [@ EXCEPT !.pc = "done",
                                                        !.result = client.accessTokenRef,
                                                        !.force = forceRefresh,
                                                        !.cached = TRUE]]
             /\ UNCHANGED refreshCalls
    /\ UNCHANGED <<defenceVars, clientAux, dispatcherVars, isNative, client, authUser, authNotify, deviceDoc, cNow,
                   signInPc, signIns>>

\* refreshAccessToken({interactive: false}) from the user effect, or with force
\* from the refresh interval; both run only for a signed-in user on native.
BackgroundRefresh(k) ==
    /\ CallFree(k)
    /\ client.user # Null /\ isNative
    /\ \E force \in BOOLEAN : EnterRefresh(k, FALSE, force)
    /\ UNCHANGED <<defenceVars, clientAux, dispatcherVars, isNative, client, authUser, authNotify, deviceDoc, cNow,
                   signInPc, signIns>>

\* trySilentRefresh: SocialLogin.refresh settles; its failure is ignored.
RefreshSettles(k) ==
    /\ calls[k].pc = "refresh"
    /\ calls' = [calls EXCEPT ![k] = [@ EXCEPT !.pc = "authCode"]]
    /\ UNCHANGED <<defenceVars, clientAux, dispatcherVars, isNative, client, authUser, authNotify, deviceDoc, cNow,
                   signInPc, refreshCalls, signIns>>

\* trySilentRefresh: SocialLogin.getAuthorizationCode settles.
AuthCodeSettles(k) ==
    /\ calls[k].pc = "authCode"
    /\ \E ok \in BOOLEAN :
        IF ok
        THEN /\ client' = applyAccessToken(client, NewToken(client), cNow)
             /\ calls' = Return(k, NewToken(client))
        ELSE /\ UNCHANGED client
             /\ calls' = IF afterSilentFailure(calls[k].interactive) = "login"
                         THEN [calls EXCEPT ![k] = [@ EXCEPT !.pc = "login",
                                                            !.silentFailed = TRUE]]
                         ELSE [Return(k, client.accessTokenRef) EXCEPT
                                  ![k].silentFailed = TRUE]
    /\ UNCHANGED <<defenceVars, clientAux, dispatcherVars, isNative, authUser, authNotify, deviceDoc, cNow,
                   signInPc, refreshCalls, signIns>>

\* The interactive path: SocialLogin.login settles.
LoginSettles(k) ==
    /\ calls[k].pc = "login"
    /\ \E outcome \in {"token", "noToken", "failed"} :
        IF outcome = "token"
        THEN /\ client' = applyAccessToken(client, NewToken(client), cNow)
             /\ calls' = Return(k, loginResult(outcome, NewToken(client),
                                               client.accessTokenRef))
        ELSE /\ UNCHANGED client
             /\ calls' = [Return(k, loginResult(outcome, NewToken(client),
                                                client.accessTokenRef))
                             EXCEPT ![k].loginFailed = TRUE]
    /\ UNCHANGED <<defenceVars, clientAux, dispatcherVars, isNative, authUser, authNotify, deviceDoc, cNow,
                   signInPc, refreshCalls, signIns>>

NextClient ==
    \/ ClientTick
    \/ SyncRef
    \/ OnAuthStateChanged
    \/ ForceLogoutSettles
    \/ SignInStart
    \/ SignInPopup
    \/ SignInGateRead
    \/ SignInGateWrite
    \/ SignInNativeLogin
    \/ SignInNativeCredential
    \/ SignOutStart
    \/ SignOutSettles
    \/ \E k \in Calls :
        \/ GetAccessToken(k)
        \/ BackgroundRefresh(k)
        \/ RefreshSettles(k)
        \/ AuthCodeSettles(k)
        \/ LoginSettles(k)

\* A first visit: sign-ins, sign-outs and token calls.
InitClient ==
    /\ DispatcherFresh
    /\ loginCooldownMs = 0
    /\ isNative \in BOOLEAN
    /\ ClientFresh
    /\ DefenceFresh

SpecClient == InitClient /\ [][NextClient]_vars

\* A first or a later visit over the life of a session: the effects' checks, the
\* token-expired dialog, sign-ins and sign-outs, and one token call at a time.
NextSession ==
    \/ ClientTick
    \/ SyncRef
    \/ OnAuthStateChanged
    \/ CheckSessionExpiry
    \/ CheckExpiry
    \/ ClearTokenExpired
    \/ ForceLogoutSettles
    \/ SignInStart
    \/ SignInPopup
    \/ SignInGateRead
    \/ SignInGateWrite
    \/ SignInNativeLogin
    \/ SignInNativeCredential
    \/ SignOutStart
    \/ SignOutSettles
    \/ GetAccessToken(1)
    \/ BackgroundRefresh(1)
    \/ RefreshSettles(1)
    \/ AuthCodeSettles(1)
    \/ LoginSettles(1)

InitSession ==
    /\ DispatcherFresh
    /\ loginCooldownMs = 0
    /\ isNative \in BOOLEAN
    /\ (ClientFresh \/ ClientReturning)
    /\ DefenceFresh

SpecSession == InitSession /\ [][NextSession]_vars

\* ------------------------------------------------------------------ claims

Started == {i \in Invs : inv[i].pc # "idle"}
Done == {i \in Invs : inv[i].pc = "done"}
SentOfType(type) == {e \in sendLog : e.type = type}
WelcomeResponse == [status |-> 200, skipped |-> FALSE, sentWelcome |-> TRUE, sentLogin |-> FALSE]
LoginResponse == [status |-> 200, skipped |-> FALSE, sentWelcome |-> FALSE, sentLogin |-> TRUE]
SkippedResponse == [status |-> 200, skipped |-> TRUE, sentWelcome |-> FALSE, sentLogin |-> FALSE]
NoOpResponse == [status |-> 200, skipped |-> FALSE, sentWelcome |-> FALSE, sentLogin |-> FALSE]

\* C1: when every invocation so far carries the same authTimeMs and the provider
\* accepted every send, at most one email of each event type was sent, every
\* response is a 200 (sent, skipped or no-op claim), and once all of them have
\* responded exactly one email was sent.
C1_ExactlyOnePerKey ==
    \A a \in {AuthTimeMsOf(t) : t \in AuthTimeSeconds} :
        (/\ Started # {}
         /\ \A i \in Started : inv[i].authTimeMs = a /\ ~inv[i].sendFailed)
        => /\ \A type \in EventTypes : Cardinality(SentOfType(type)) <= 1
           /\ \A i \in Done : inv[i].response.status = 200
           /\ (Started = Done => Cardinality(sendLog) = 1)

\* C2: for every event type and every authentication instant the code keys its
\* events by (authTimeMs > 0), at most one email was sent, whatever the interleaving.
C2_AtMostOnePerTypeAndInstant ==
    \A type \in EventTypes, t \in AuthTimeSeconds :
        Truthy(AuthTimeMsOf(t)) =>
            Cardinality({e \in SentOfType(type) : e.authTimeMs = AuthTimeMsOf(t)}) <= 1

\* C3: the welcome email is sent at most once for the uid.
C3_WelcomeAtMostOnce == Cardinality(SentOfType("welcome")) <= 1

C5_NoSendAtOrBeforeRecorded ==
    \A i \in Invs :
        inv[i].dupAtStart =>
            /\ ~inv[i].sentWelcome /\ ~inv[i].sentLogin
            /\ \A e \in sendLog : e.inv # i

C7_NeverWelcomeAndLogin ==
    \A i \in Invs :
        /\ ~(inv[i].plan.shouldSendWelcome /\ inv[i].plan.shouldSendLogin)
        /\ ~(inv[i].sentWelcome /\ inv[i].sentLogin)
        /\ ~(inv[i].response.sentWelcome /\ inv[i].response.sentLogin)
        /\ Cardinality({e \in sendLog : e.inv = i}) <= 1

C7_Witness ==
    \E i, j \in Invs :
        /\ inv[i].response = WelcomeResponse
        /\ inv[j].response = LoginResponse

C8_EverySignInNotifies ==
    \A n \in 1..Len(signIns) :
        (n > 1 /\ signIns[1].notified) => signIns[n].notified

\* C10: concurrent getAccessToken() calls share one network refresh: never are two
\* refreshes in flight at once.
C10_RefreshCoalesced ==
    Cardinality({k \in Calls : calls[k].pc \in {"refresh", "authCode"}}) <= 1

\* ------------------------------------------------- stored token at mount

\* What the token keys can hold when the hook mounts: nothing, or an entry written
\* at the earlier visit, well-formed or not, in the legacy shape (no expiresAt),
\* with an expiresAt that does not count (0), or with one of its own.
RawTokenInputs ==
    {NoEntry} \cup
    [token : {Null, 1, 2}, storedAt : {Null, PreviousVisit},
     expiresAt : {Null, 0, PreviousVisit + ACCESS_TOKEN_LIFETIME + 1}]

\* The instants of the mount: the last second before the earlier visit's token
\* runs out by the default lifetime, the second it does, and the one after.
MountInstants ==
    {PreviousVisit + ACCESS_TOKEN_LIFETIME + e : e \in {0 - 1, 0, 1}}

InitStorage ==
    /\ DispatcherFresh
    /\ loginCooldownMs = 0
    /\ isNative = FALSE
    /\ DefenceFresh
    /\ ClientIdle
    /\ authUser = Null
    /\ cNow \in MountInstants
    /\ \E current \in RawTokenInputs, legacy \in RawTokenInputs :
           client = [InitClientState EXCEPT !.lsToken = current, !.lsLegacyToken = legacy]
    /\ mount = NotMounted

\* The hook's first render: useState(() => readStoredToken()) and the rest.
MountHook ==
    /\ ~mount.done
    /\ mount' = MountRecord(client, cNow)
    /\ client' = useGoogleAuthInit(client, authUser, cNow)
    /\ UNCHANGED <<defenceVars, dispatcherVars, sessionChecks, expiredOnce, migration, isNative, authUser,
                   authNotify, deviceDoc, cNow, signInPc, calls, refreshCalls, signIns>>

NextStorage == MountHook
SpecStorage == InitStorage /\ [][NextStorage]_vars

\* --------------------------------- the storage listener (useGoogleAuth.ts l.865-895)

\* ACCESS_TOKEN_TTL_MS of the hook that carries the listener.
ACCESS_TOKEN_TTL == 50 * 60

\* checkStoredExpiry: nothing for no stored entry; a stored entry past its time
\* expires the token; a legacy entry still valid is copied forward.
checkStoredExpiry(c, now) ==
    LET primary == parseStoredToken(c.lsToken)
        legacy == IF primary # NoEntry THEN NoEntry ELSE parseStoredToken(c.lsLegacyToken)
        entry == IF primary # NoEntry THEN primary ELSE legacy
    IN  IF entry = NoEntry THEN c
        ELSE IF now >= entry.storedAt + ACCESS_TOKEN_TTL
             THEN persistTokenEntry(expireToken(c, now), NoEntry)
        ELSE IF legacy # NoEntry THEN persistTokenEntry(c, legacy)
        ELSE c

\* This tab as a web sign-in at the earlier visit left it.
SignedInTab ==
    [InitClientState EXCEPT
        !.user = 1,
        !.accessToken = 1,
        !.accessTokenRef = 1,
        !.accessTokenExpiresAt = PreviousVisit + ACCESS_TOKEN_TTL,
        !.sessionStartMs = PreviousVisit,
        !.lsSessionStart = PreviousVisit,
        !.lsToken = [token |-> 1, storedAt |-> PreviousVisit, expiresAt |-> Null]]

InitCrossTab ==
    /\ DispatcherFresh
    /\ loginCooldownMs = 0
    /\ isNative = FALSE
    /\ DefenceFresh
    /\ cNow = PreviousVisit
    /\ client = SignedInTab
    /\ mount = MountRecord(SignedInTab, PreviousVisit)
    /\ authUser = 1
    /\ authNotify = FALSE
    /\ deviceDoc = TRUE
    /\ signInPc = "idle"
    /\ calls = [k \in Calls |-> InitCall]
    /\ refreshCalls = 0
    /\ signIns = <<>>
    /\ sessionChecks = {}
    /\ expiredOnce = FALSE
    /\ migration = NoMigration

CrossTabFrame ==
    UNCHANGED <<defenceVars, clientAux, dispatcherVars, isNative, authUser, authNotify,
                deviceDoc, cNow, signInPc, calls, refreshCalls, signIns>>

\* Another tab signs out: its persistToken(null) and persistSessionStart(null)
\* remove the shared entries, and this tab is sent a storage event.
OtherTabSignsOut ==
    /\ client.lsToken # NoEntry \/ client.lsLegacyToken # NoEntry
    /\ client' = [persistSessionStart(persistTokenEntry(client, NoEntry), Null)
                     EXCEPT !.storageEvent = "pending"]
    /\ CrossTabFrame

\* Another tab writes an entry: a token it just obtained, or the entry of the
\* earlier visit once more (which may have run out by now).
OtherTabStores ==
    /\ \E token \in {1, 2}, storedAt \in {PreviousVisit, cNow} :
          client' = [persistTokenEntry(client, [token |-> token, storedAt |-> storedAt,
                                                expiresAt |-> Null])
                        EXCEPT !.storageEvent = "pending"]
    /\ CrossTabFrame

\* onStorage: the event for one of the token keys runs checkStoredExpiry.
OnStorage ==
    /\ client.storageEvent = "pending"
    /\ client' = [checkStoredExpiry(client, cNow) EXCEPT !.storageEvent = "handled"]
    /\ CrossTabFrame

\* The listener effect's own interval: checkStoredExpiry every 15 s.
StoredExpiryPoll ==
    /\ client' = checkStoredExpiry(client, cNow)
    /\ client' # client
    /\ CrossTabFrame

NextCrossTab ==
    \/ ClientTick
    \/ OtherTabSignsOut
    \/ OtherTabStores
    \/ OnStorage
    \/ StoredExpiryPoll

SpecCrossTab == InitCrossTab /\ [][NextCrossTab]_vars

\* ------------------------------------------------ claims: session and token

\* A step that takes tokenExpired from true back to false.
FlagCleared == client.tokenExpired /\ ~client'.tokenExpired

\* C11 (as stated): tokenExpired returns to false only through a refresh or a
\* sign-in that obtains a new token.
C11_ClearedOnlyByNewToken ==
    [][FlagCleared => client'.accessToken # Null]_vars

\* C11 (amended): tokenExpired returns to false only in a step of the hook at an
\* unchanged clock: a new token applied with its expiry ahead, or, with the access
\* token left null, clearTokenExpired, a sign-out that settled, or the end of a
\* forced logout.
C11_ClearedOnlyExplicitly ==
    [][FlagCleared =>
        /\ cNow' = cNow
        /\ \/ /\ client'.accessToken # Null
              /\ client'.accessToken # client.accessTokenRef
              /\ client'.accessTokenExpiresAt > cNow
              /\ client'.lsToken = [token |-> client'.accessToken, storedAt |-> cNow,
                                    expiresAt |-> client'.accessTokenExpiresAt]
           \/ /\ client'.accessToken = Null
              /\ \/ client' = [client EXCEPT !.tokenExpired = FALSE] /\ signInPc' = signInPc
                 \/ signInPc = "signOut" /\ signInPc' = "idle" /\ authUser' = Null
                 \/ client'.logoutsInFlight < client.logoutsInFlight]_vars

\* A token ran out, and the hook holds a newer one with the flag back to false.
C11_Witness ==
    /\ expiredOnce
    /\ ~client.tokenExpired
    /\ client.accessToken # Null
    /\ client.accessTokenExpiresAt > cNow

\* C12: while tokenExpired is true the hook holds no access token.
C12_ExpiredHoldsNoToken ==
    client.tokenExpired => client.accessToken = Null /\ client.accessTokenExpiresAt = Null

\* A signed-in user whose token was expired by checkExpiry.
C12_Witness ==
    /\ expiredOnce
    /\ client.tokenExpired
    /\ client.user # Null
    /\ client.accessToken = Null

\* A step that checks the session that began at `start`: the session effect's
\* check, or the auth-state listener finding a stored session start.
SessionCheckStep(start) ==
    \/ /\ client'.sessionCheck # client.sessionCheck
       /\ start = client.sessionStartMs
    \/ /\ authNotify /\ ~authNotify' /\ authUser # Null
       /\ start = readSessionStart(client)
       /\ start # Null

\* A step in which a forced logout finishes.
ForcedLogoutFinishes == client'.logoutsInFlight < client.logoutsInFlight

StorageCleared(c) ==
    /\ c.lsToken = NoEntry
    /\ c.lsLegacyToken = NoEntry
    /\ c.lsSessionStart = Null
    /\ c.lsLegacySessionStart = Null

\* C13: a session check less than SESSION_DURATION after the session start (the
\* last second before it included) leaves the session as it is; a check at
\* SESSION_DURATION or later starts forceSessionLogout, and when that finishes the
\* token keys and the session-start keys, current and legacy, are all removed.
C13_SessionHardBoundary ==
    /\ [](\A r \in sessionChecks : r.forced <=> r.age >= SESSION_DURATION)
    /\ [][/\ \A start \in {client.sessionStartMs, readSessionStart(client)} :
               SessionCheckStep(start) =>
                   IF cNow - start >= SESSION_DURATION
                   THEN client'.logoutsInFlight = client.logoutsInFlight + 1
                   ELSE /\ client'.logoutsInFlight = client.logoutsInFlight
                        /\ client'.sessionStartMs = start
                        /\ client'.lsSessionStart = start
           /\ ForcedLogoutFinishes => StorageCleared(client')]_vars

\* One session was checked a second before its end and left alone, checked again
\* at its end and logged out, and the logout has finished.
C13_Witness ==
    /\ [age |-> SESSION_DURATION - 1, forced |-> FALSE] \in sessionChecks
    /\ [age |-> SESSION_DURATION, forced |-> TRUE] \in sessionChecks
    /\ client.logoutsInFlight = 0
    /\ client.error = "sessionExpired"
    /\ client.user = Null
    /\ StorageCleared(client)

\* C14: when forceSessionLogout finishes, with the provider's sign-out succeeded
\* (authUser gone) or failed (authUser kept), the token and its expiry are null,
\* the stored token and session-start entries are removed, user is null and
\* error holds the reason.
C14_ForcedLogoutCompletes ==
    [][ForcedLogoutFinishes =>
        /\ authUser' \in {Null, authUser}
        /\ client'.accessToken = Null
        /\ client'.accessTokenExpiresAt = Null
        /\ client'.sessionStartMs = Null
        /\ client'.lsToken = NoEntry /\ client'.lsLegacyToken = NoEntry
        /\ client'.lsSessionStart = Null /\ client'.lsLegacySessionStart = Null
        /\ client'.user = Null
        /\ ~client'.tokenExpired
        /\ ~client'.loading
        /\ client'.error = "sessionExpired"]_vars

\* A forced logout has finished although the provider's sign-out failed: the
\* provider still holds the user, the hook holds nothing.
C14_Witness ==
    /\ authUser # Null
    /\ client.logoutsInFlight = 0
    /\ client.error = "sessionExpired"
    /\ client.user = Null
    /\ client.accessToken = Null
    /\ client.lsToken = NoEntry
    /\ client.lsSessionStart = Null

\* C15: for one expired session no second forced logout is started, also not
\* while the first is still awaiting the provider: at most one is in flight.
C15_AtMostOneForcedLogout == client.logoutsInFlight <= 1

\* ------------------------------------------------------ claims: storage

\* The instant a stored entry runs out: its own expiresAt, else the default
\* lifetime after storedAt.
ExpiryOf(entry) ==
    IF entry.expiresAt # Null THEN entry.expiresAt ELSE entry.storedAt + ACCESS_TOKEN_LIFETIME

EarlierOfSameIp(log, n) == {m \in 1..(n - 1) : log[m].ip = log[n].ip}

\* The window the n-th request falls in, counted from the log alone: a client's
\* first request opens a window, a request at or after the reset of the window
\* of the client's previous request opens the next, any other is one more in it.
RECURSIVE WindowOf(_, _)
WindowOf(log, n) ==
    IF EarlierOfSameIp(log, n) = {}
    THEN [start |-> log[n].at, index |-> 1]
    ELSE LET m == CHOOSE m \in EarlierOfSameIp(log, n) :
                      \A k \in EarlierOfSameIp(log, n) : k <= m
             previous == WindowOf(log, m)
         IN  IF log[n].at >= previous.start + DEFAULT_RATE_LIMIT_WINDOW_SECONDS * 1000
             THEN [start |-> log[n].at, index |-> 1]
             ELSE [start |-> previous.start, index |-> previous.index + 1]

\* C17: requests 1 to 5 of one address in a window pass, the 6th and later ones
\* get 429 with a Retry-After of at least one second (the seconds left to the
\* reset, rounded up), and the first request at or after the reset passes as the
\* first of a new window.
C17_RateLimitBoundary ==
    /\ \A n \in 1..Len(reqLog) :
           LET w == WindowOf(reqLog, n)
               left == w.start + DEFAULT_RATE_LIMIT_WINDOW_SECONDS * 1000 - reqLog[n].at
           IN  /\ reqLog[n].allowed <=> w.index <= DEFAULT_RATE_LIMIT_MAX
               /\ reqLog[n].allowed => reqLog[n].retryAfter = 0
               /\ ~reqLog[n].allowed =>
                      /\ reqLog[n].retryAfter >= 1
                      /\ 1000 * reqLog[n].retryAfter >= left
                      /\ 1000 * (reqLog[n].retryAfter - 1) < left
    /\ Len(reqLog) > 0 =>
           /\ lastResponse.ip = reqLog[Len(reqLog)].ip
           /\ lastResponse.status = IF reqLog[Len(reqLog)].allowed THEN 0 ELSE 429
           /\ lastResponse.retryAfter = reqLog[Len(reqLog)].retryAfter

\* One address sent six requests in a window, the sixth a millisecond before the
\* reset and refused with Retry-After 1, and a seventh at the reset, which passed.
C17_Witness ==
    \E n \in 1..Len(reqLog) :
        /\ n > 1
        /\ reqLog[n].allowed
        /\ WindowOf(reqLog, n).index = 1
        /\ reqLog[n].at = WindowOf(reqLog, n - 1).start + DEFAULT_RATE_LIMIT_WINDOW_SECONDS * 1000
        /\ reqLog[n - 1].ip = reqLog[n].ip
        /\ WindowOf(reqLog, n - 1).index = DEFAULT_RATE_LIMIT_MAX + 1
        /\ ~reqLog[n - 1].allowed
        /\ reqLog[n - 1].retryAfter = 1

\* C18: the number of entries of RATE_LIMIT_STORE stays within RATE_LIMIT_STORE_MAX.
C18_StoreBounded == RateLimitStoreSize(rateLimitStore) <= RATE_LIMIT_STORE_MAX

\* The user's requests that passed the rate limit in the window opened by the
\* user's first request, whatever address they came from.
PassedInFirstWindow ==
    {n \in 1..Len(reqLog) :
        /\ reqLog[n].allowed
        /\ reqLog[n].at < reqLog[1].at + DEFAULT_RATE_LIMIT_WINDOW_SECONDS * 1000}

\* C19: of one user's requests in one window no more than the maximum pass the
\* rate limit, from whatever addresses they arrive.
C19_PerUserLimit == Cardinality(PassedInFirstWindow) <= DEFAULT_RATE_LIMIT_MAX

\* The four causes, and the ones a request shows.
Causes == {"method", "origin", "malformed", "unexpected"}
CausesOf(r) ==
    {c \in Causes :
        \/ c = "method" /\ r.method # "POST"
        \/ c = "origin" /\ ~r.originAllowed
        \/ c = "malformed" /\ r.body = "malformed"
        \/ c = "unexpected" /\ r.body = "unexpected"}

\* The status of the plainest request showing one cause alone: a GET for the
\* method, and otherwise a POST from an allowed origin with a JSON content type.
StatusOfCause(c) ==
    RequestShapeStatus(IF c = "method" THEN "GET" ELSE "POST",
                       c # "origin",
                       IF c \in {"malformed", "unexpected"} THEN c ELSE "valid",
                       TRUE)

Is4xx(status) == status >= 400 /\ status <= 499

\* C20 (as stated): a request showing one of the four causes alone is answered
\* with a 4xx status that none of the other three causes is answered with.
C20_EachDistinct4xx ==
    \A c \in Causes :
        (lastResponse # NoRequest /\ CausesOf(lastResponse) = {c} /\ lastResponse.jsonContentType) =>
            /\ Is4xx(lastResponse.status)
            /\ \A d \in Causes \ {c} : StatusOfCause(d) # lastResponse.status

\* C20 (amended): a disallowed origin is answered 403, a method other than POST
\* and OPTIONS from an allowed origin 405, and a malformed JSON body or a body
\* with unexpected fields, in a POST from an allowed origin with a JSON content
\* type, 400.
C20_RejectedWith4xx ==
    lastResponse # NoRequest =>
        /\ ~lastResponse.originAllowed => lastResponse.status = 403
        /\ (lastResponse.originAllowed /\ lastResponse.method \notin {"POST", "OPTIONS"}) =>
               lastResponse.status = 405
        /\ (/\ lastResponse.originAllowed
            /\ lastResponse.method = "POST"
            /\ lastResponse.jsonContentType
            /\ lastResponse.body \in {"malformed", "unexpected"}) =>
               lastResponse.status = 400

\* A POST from an allowed origin whose JSON body has a key that is not allowed
\* was answered 400, as is one whose body is not JSON.
C20_Witness ==
    /\ lastResponse.method = "POST"
    /\ lastResponse.originAllowed
    /\ lastResponse.jsonContentType
    /\ lastResponse.body = "unexpected"
    /\ lastResponse.status = 400
    /\ StatusOfCause("malformed") = 400

\* ------------------------------------------------ claims: token calls

\* A step in which call k's silent refresh fails and the call returns.
SilentFailureReturns(k) ==
    /\ calls[k].pc = "authCode"
    /\ calls'[k].pc = "done"
    /\ calls'[k].silentFailed

\* C21: a call with interactive = false never reaches SocialLogin.login and never
\* starts signInWithPopup, and when its silent refresh fails it returns the token
\* the hook holds at that moment and leaves the hook as it is.
C21_NonInteractiveNeverPrompts ==
    /\ [](\A k \in Calls : calls[k].pc = "login" => calls[k].interactive)
    /\ [][\A k \in Calls :
            /\ calls'[k] # calls[k] => signInPc' = signInPc
            /\ (SilentFailureReturns(k) /\ ~calls[k].interactive) =>
                   /\ calls'[k].result = client.accessTokenRef
                   /\ client' = client]_vars

\* A forced background refresh failed while the hook held a token, and the call
\* returned that token.
C21_Witness ==
    \E k \in Calls :
        /\ calls[k].pc = "done"
        /\ ~calls[k].interactive
        /\ calls[k].force
        /\ calls[k].silentFailed
        /\ calls[k].result # Null
        /\ calls[k].result = client.accessToken

\* A step in which refreshAccessToken returns from one of its awaits.
RefreshReturns(k) ==
    /\ calls[k].pc \in {"authCode", "login"}
    /\ calls'[k].pc = "done"

\* C22: whatever the SDK answers, a refresh ends by returning: either it stored a
\* token newly obtained and returns it, or it leaves the hook's token, in memory
\* and in storage, as it was and returns the token the hook held (null if none).
C22_RefreshFailureNotFatal ==
    /\ [](\A k \in Calls :
            /\ calls[k].pc \in {"idle", "refresh", "authCode", "login", "done"}
            /\ calls[k].pc = "idle" => calls[k].result = Null)
    /\ [][\A k \in Calls : RefreshReturns(k) =>
            IF calls'[k].silentFailed /\ (calls[k].interactive => calls'[k].loginFailed)
            THEN /\ calls'[k].result = client.accessTokenRef
                 /\ client' = client
            ELSE /\ calls'[k].result # Null
                 /\ calls'[k].result \notin {client.accessToken, client.accessTokenRef}
                 /\ client'.accessToken = calls'[k].result
                 /\ client'.lsToken.token = calls'[k].result]_vars

\* An interactive refresh whose silent attempt and login both failed while the
\* hook held a token: the call returned that token and the token is still there.
C22_Witness ==
    \E k \in Calls :
        /\ calls[k].pc = "done"
        /\ calls[k].interactive
        /\ calls[k].silentFailed
        /\ calls[k].loginFailed
        /\ calls[k].result # Null
        /\ calls[k].result = client.accessToken
        /\ client.lsToken.token = calls[k].result

\* C23: once the storage event of another tab's change has been handled, a tab
\* that finds no credential stored holds none itself.
C23_CrossTabConvergence ==
    (/\ client.storageEvent = "handled"
     /\ parseStoredToken(client.lsToken) = NoEntry
     /\ parseStoredToken(client.lsLegacyToken) = NoEntry) =>
        client.accessToken = Null /\ client.accessTokenExpiresAt = Null

\* C24: a session start that is stored is never replaced by another one: the
\* start is set only from the clean slate, and only removed in between.
C24_SessionStartIdempotent ==
    [][(client.sessionStartMs # Null /\ client'.sessionStartMs # Null) =>
          client'.sessionStartMs = client.sessionStartMs]_vars

\* The step in which the signOut() operation ends.
SignOutEnds == signInPc = "signOut" /\ signInPc' = "idle"

\* C25: when signOut() ends, whatever the provider's sign-out call did, no
\* credential entry and no session record is stored and no token is held.
C25_SignOutDeletesLocalState ==
    [][SignOutEnds =>
          /\ client'.lsToken = NoEntry
          /\ client'.lsLegacyToken = NoEntry
          /\ client'.lsSessionStart = Null
          /\ client'.lsLegacySessionStart = Null
          /\ client'.sessionStartMs = Null
          /\ client'.accessToken = Null]_vars

\* getAccessToken handed back accessTokenRef.current without a refresh.
ReturnsCached(k) ==
    /\ calls[k].pc = "idle" /\ calls'[k].pc = "done"
    /\ calls'[k].cached /\ calls'[k].result # Null

\* The token the hook holds is present and not past its expiresAt.
HoldsLiveToken ==
    /\ client.accessTokenRef # Null
    /\ client.accessToken = client.accessTokenRef
    /\ client.accessTokenExpiresAt # Null
    /\ cNow < client.accessTokenExpiresAt

\* C26: getAccessToken returns the cached token at once only when that token
\* is not expired and no forced refresh was asked for.
C26_CachedOnlyWhenLive ==
    [][\A k \in Calls :
          ReturnsCached(k) => HoldsLiveToken /\ ~calls'[k].force]_vars


\* ------------------------------------------------ claims: claim and record

\* The step in which invocation i's claim transaction commits.
ClaimCommits(i) == inv[i].pc = "claim" /\ inv'[i] # inv[i]

OtherType(type) == IF type = "welcome" THEN "login" ELSE "welcome"

\* C27: a claim transaction that finds the entry of its type with the same
\* eventId and a status other than failed writes nothing and is not claimed;
\* any other writes a pending entry with its eventId for its type, leaves the
\* other type's entry as it was, and is claimed.
C27_ClaimTransaction ==
    [][\A i \in Invs : ClaimCommits(i) =>
          LET type == inv[i].cur
              eventId == buildEmailEventId(type, inv[i].authTimeMs, inv[i].now)
              existing == emailState.emailEvents[type]
          IN  IF existing.eventId = eventId /\ existing.status # "failed"
              THEN /\ emailState' = emailState
                   /\ inv'[i].pc # "send"
                   /\ LocalEvent(inv'[i], type) = NoEvent
              ELSE /\ emailState'.emailEvents[type].eventId = eventId
                   /\ emailState'.emailEvents[type].status = "pending"
                   /\ emailState'.emailEvents[OtherType(type)] =
                          emailState.emailEvents[OtherType(type)]
                   /\ inv'[i].pc = "send"
                   /\ LocalEvent(inv'[i], type) = emailState'.emailEvents[type]]_vars

\* One invocation's claim was a no-op, and another re-claimed a failed entry.
C27_Witness ==
    /\ \E j \in Invs :
          /\ inv[j].pc = "done" /\ ~inv[j].response.skipped
          /\ inv[j].welcomeEvent = NoEvent /\ inv[j].loginEvent = NoEvent
    /\ \E i \in Invs : inv[i].reclaimed

\* C28: no write lowers the stored lastAuthEventTime.
C28_LastAuthEventTimeMonotone ==
    [][Truthy(emailState.lastAuthEventTime) =>
          /\ Truthy(emailState'.lastAuthEventTime)
          /\ emailState'.lastAuthEventTime >= emailState.lastAuthEventTime]_vars

\* The step in which invocation i sends its response.
Responds(i) == inv[i].pc # "done" /\ inv'[i].pc = "done"

\* C29: when an invocation responds, the entry of every event it claimed is
\* sent or failed, also when a write to the state store was rejected.
C29_NoPendingAfterResponse ==
    [][\A i \in Invs : Responds(i) =>
          \A type \in EventTypes :
              LET claimed == LocalEvent(inv'[i], type)
                  entry == emailState'.emailEvents[type]
              IN  (claimed # NoEvent /\ entry.eventId = claimed.eventId) =>
                      entry.status \in {"sent", "failed"}]_vars

\* The top-level fields of the stored state.
TopLevel(state) ==
    <<state.welcomeSent, state.lastAuthEventTime, state.lastLoginEmailAt>>

\* The provider accepted an email of this type from invocation i.
ActuallySent(i, type) == \E m \in sendLog : m.inv = i /\ m.type = type

\* C30: the top-level fields change only in the step of an invocation that
\* sent something: welcomeSent becomes true only by one whose welcome email was
\* accepted, lastLoginEmailAt changes only by one whose login email was
\* accepted, and an invocation that sent nothing (send failed, claim a no-op,
\* skipped) responds without changing any of the three.
C30_TopLevelReflectsSends ==
    [][/\ TopLevel(emailState') # TopLevel(emailState) =>
             \E i \in Invs : Responds(i) /\ \E type \in EventTypes : ActuallySent(i, type)
       /\ emailState'.welcomeSent # emailState.welcomeSent =>
             /\ emailState'.welcomeSent
             /\ \E i \in Invs : Responds(i) /\ ActuallySent(i, "welcome")
       /\ emailState'.lastLoginEmailAt # emailState.lastLoginEmailAt =>
             \E i \in Invs : Responds(i) /\ ActuallySent(i, "login")
       /\ \A i \in Invs :
             (Responds(i) /\ \A type \in EventTypes : ~ActuallySent(i, type)) =>
                 TopLevel(emailState') = TopLevel(emailState)]_vars

\* A welcome and a login email are recorded and another invocation's send
\* failed.
C30_Witness ==
    /\ emailState.welcomeSent
    /\ Truthy(emailState.lastLoginEmailAt)
    /\ \E i \in Invs : inv[i].pc = "done" /\ inv[i].response.status = 502


\* ------------------------------------------- claims: dispatcher, continued

\* C31: a write that changes an event entry to sent or failed replaces the
\* entry its own invocation claimed: the entry stored just before the write is
\* still that invocation's pending entry, not one claimed by another in between.
C31_EntryWritesTransactional ==
    [][\A i \in Invs : (Responds(i) /\ inv[i].pc \in {"markFailed", "record"}) =>
          \A type \in EventTypes :
              emailState'.emailEvents[type] # emailState.emailEvents[type] =>
                  /\ emailState.emailEvents[type].eventId = LocalEvent(inv[i], type).eventId
                  /\ emailState.emailEvents[type].status = "pending"]_vars

\* The step in which a request arrives.
RequestArrives == lastResponse' # lastResponse \/ reqLog' # reqLog

\* What a defence step rejects, read off the request itself: origin, method,
\* body, payload, rate limit, captcha, identity assertion.
RejectedRequest(r) ==
    \/ ~r.request.originAllowed
    \/ r.request.method \notin {"POST", "OPTIONS"}
    \/ r.request.body # "none" /\ ~r.request.jsonContentType
    \/ r.request.body \in {"malformed", "unexpected"}
    \/ r.limited
    \/ ~r.request.captchaOk
    \/ ~r.request.bearer
    \/ ~r.request.tokenValid
    \/ ~r.request.hasEmail

\* C32: a request rejected at a defence step is answered with a 4xx status
\* and does nothing later: no invocation starts for it, the email state is
\* neither read nor written, and no email is sent.
C32_NoPartialProcessing ==
    [][(RequestArrives /\ RejectedRequest(lastResponse')) =>
          /\ Is4xx(lastResponse'.status)
          /\ UNCHANGED <<emailState, inv, clock, sendLog, recorded, firstClaimer>>]_vars

\* Rejections of each step have happened, the last one by the rate limit, and
\* an accepted request has sent its email.
C32_Witness ==
    /\ lastResponse # NoRequest
    /\ lastResponse.status = 429
    /\ \E k \in 1..Len(reqLog) : reqLog[k].allowed
    /\ sendLog # {}

\* The send plan as specified, with "unavailable" and "!= null" read as null.
SpecifiedPlan(state, now, authTimeMs, cooldownMs) ==
    LET shouldSendWelcome == ~state.welcomeSent
        isDuplicateAuthEvent ==
            /\ authTimeMs # Null
            /\ state.lastAuthEventTime # Null
            /\ authTimeMs <= state.lastAuthEventTime
        cooledDown ==
            /\ authTimeMs = Null
            /\ cooldownMs > 0
            /\ state.lastLoginEmailAt # Null
            /\ now - state.lastLoginEmailAt < cooldownMs
    IN  [shouldSendWelcome |-> shouldSendWelcome,
         shouldSendLogin |-> ~shouldSendWelcome /\ ~isDuplicateAuthEvent /\ ~cooledDown,
         isDuplicateAuthEvent |-> isDuplicateAuthEvent]

\* C33: the plan the handler computed is the specified plan, for every input.
C33_PlanAsSpecified ==
    \A i \in Invs :
        inv[i].pc \notin {"idle", "load"} =>
            inv[i].plan = SpecifiedPlan(emailState, inv[i].now, inv[i].authTimeMs,
                                        loginCooldownMs)

\* Invocation i holds the pending entry of its own eventId for its current type.
HoldsOwnClaim(r) ==
    /\ LocalEvent(r, r.cur) # NoEvent
    /\ LocalEvent(r, r.cur).status = "pending"
    /\ LocalEvent(r, r.cur).eventId = buildEmailEventId(r.cur, r.authTimeMs, r.now)

\* C34: an invocation is at the email provider only after its own claim
\* transaction committed a pending entry with its eventId, in a step of its
\* own after the commit; and every email sent was sent by an invocation that
\* had claimed that type, never by one whose claim was a no-op.
C34_ClaimThenSend ==
    /\ [](\A i \in Invs : inv[i].pc = "send" => HoldsOwnClaim(inv[i]))
    /\ [](\A m \in sendLog : LocalEvent(inv[m.inv], m.type) # NoEvent)
    /\ [][\A i \in Invs :
            /\ (inv[i].pc # "send" /\ inv'[i].pc = "send") =>
                  /\ inv[i].pc = "claim"
                  /\ emailState'.emailEvents[inv'[i].cur] = LocalEvent(inv'[i], inv'[i].cur)
                  /\ sendLog' = sendLog
            /\ (inv[i].pc = "send" /\ inv'[i] # inv[i]) => emailState' = emailState]_vars

\* An email was sent by one invocation while another's claim of the same type
\* was a no-op.
C34_Witness ==
    /\ sendLog # {}
    /\ \E j \in Invs :
          /\ inv[j].pc = "done" /\ ~inv[j].response.skipped
          /\ inv[j].response.status = 200
          /\ inv[j].welcomeEvent = NoEvent /\ inv[j].loginEvent = NoEvent


\* ------------------------------------------ claims: client, continued

\* The held token has reached its expiresAt.
HeldTokenExpired ==
    /\ client.accessToken # Null
    /\ client.accessTokenExpiresAt # Null
    /\ cNow >= client.accessTokenExpiresAt

\* C35: when a non-interactive refresh fails, a held token that has not reached
\* its expiresAt is left as it is, and one that has is cleared with
\* tokenExpired set.
C35_SilentFailureExpires ==
    [][\A k \in Calls : (SilentFailureReturns(k) /\ ~calls[k].interactive) =>
          IF HeldTokenExpired
          THEN client'.accessToken = Null /\ client'.tokenExpired
          ELSE /\ client'.accessToken = client.accessToken
               /\ client'.accessTokenExpiresAt = client.accessTokenExpiresAt]_vars

\* C36: while a signed-in user holds a token that has reached its expiresAt,
\* an expiry check is due: the check that moves the state to expired can fire.
C36_ExpiryCheckDue ==
    (client.user # Null /\ HeldTokenExpired) => ENABLED CheckExpiry

\* The session timer firing on hook state c: the effect holds a timer only for
\* a user with a session start.
SessionTimerFires(c) ==
    IF c.user # Null /\ Truthy(c.sessionStartMs) THEN checkSessionExpiry(c, cNow) ELSE c

\* The token timer firing on hook state c: the effect holds a timer only on
\* the web, for a user with a token and an expiresAt.
TokenTimerFires(c) ==
    IF ~isNative /\ c.user # Null /\ c.accessToken # Null /\ Truthy(c.accessTokenExpiresAt)
    THEN checkExpiry(c, cNow) ELSE c

\* C37: a timer firing on a consistent state (token before its expiresAt or
\* already cleared, session live or user logged out) changes nothing, and a
\* timer firing twice in a row leaves the state its first firing left.
C37_TimersIdempotent ==
    /\ (client.accessToken = Null \/ ~HeldTokenExpired) => TokenTimerFires(client) = client
    /\ (\/ client.user = Null
        \/ client.sessionStartMs = Null
        \/ ~isSessionExpired(client.sessionStartMs, cNow)) => SessionTimerFires(client) = client
    /\ TokenTimerFires(TokenTimerFires(client)) = TokenTimerFires(client)
    /\ SessionTimerFires(SessionTimerFires(client)) = SessionTimerFires(client)

\* ------------------------------ stored keys read by several tabs, call by call

\* Bounds: the tabs that share the origin's localStorage, and the reads each makes.
MaxTabs == 2
MaxReads == 2
Tabs == 1..MaxTabs

IdleTab == [pc |-> "idle", key |-> "none", reads |-> 0,
            entry |-> NoEntry, tokenState |-> [token |-> Null, expiresAt |-> Null],
            start |-> Null]

\* What the legacy token key can hold: nothing, an entry in the legacy shape, one
\* with an expiresAt that does not count, one with its own expiresAt, a
\* malformed one.
LegacyTokenInputs ==
    {NoEntry,
     [token |-> 1, storedAt |-> PreviousVisit, expiresAt |-> Null],
     [token |-> 1, storedAt |-> PreviousVisit, expiresAt |-> 0],
     [token |-> 1, storedAt |-> PreviousVisit,
      expiresAt |-> PreviousVisit + ACCESS_TOKEN_LIFETIME + 1],
     [token |-> Null, storedAt |-> PreviousVisit, expiresAt |-> Null]}

CurrentTokenInputs ==
    {NoEntry, [token |-> 2, storedAt |-> PreviousVisit, expiresAt |-> Null]}

InitMigration ==
    /\ DispatcherFresh
    /\ loginCooldownMs = 0
    /\ isNative = FALSE
    /\ DefenceFresh
    /\ authUser = Null
    /\ authNotify = TRUE
    /\ deviceDoc = FALSE
    /\ signInPc = "idle"
    /\ calls = [k \in Calls |-> InitCall]
    /\ refreshCalls = 0
    /\ signIns = <<>>
    /\ sessionChecks = {}
    /\ expiredOnce = FALSE
    /\ mount = NotMounted
    /\ cNow \in MountInstants
    /\ \E current \in CurrentTokenInputs, legacy \in LegacyTokenInputs,
          start \in {Null, PreviousVisit}, legacyStart \in {Null, 0, PreviousVisit} :
           client = [InitClientState EXCEPT !.lsToken = current, !.lsLegacyToken = legacy,
                                            !.lsSessionStart = start,
                                            !.lsLegacySessionStart = legacyStart]
    /\ migration = [start |-> client, tabs |-> [t \in Tabs |-> IdleTab]]

MigrationFrame ==
    UNCHANGED <<defenceVars, dispatcherVars, sessionChecks, mount, expiredOnce, isNative,
                authUser, authNotify, deviceDoc, cNow, signInPc, calls, refreshCalls, signIns>>

TabStep(t, tab) == migration' = [migration EXCEPT !.tabs[t] = tab]

\* A tab calls readStoredToken() or readSessionStart().
BeginRead(t) ==
    /\ migration.tabs[t].pc \in {"idle", "done"}
    /\ migration.tabs[t].reads < MaxReads
    /\ \E key \in {"token", "session"} :
           TabStep(t, [IdleTab EXCEPT !.pc = "primary", !.key = key,
                                      !.reads = migration.tabs[t].reads + 1])
    /\ UNCHANGED client
    /\ MigrationFrame

\* localStorage.getItem of the current key.
ReadPrimary(t) ==
    LET tab == migration.tabs[t]
        primary == parseStoredToken(client.lsToken)
        primaryStart == parseSessionStart(client.lsSessionStart)
    IN  /\ tab.pc = "primary"
        /\ IF tab.key = "token"
           THEN IF primary # NoEntry
                THEN TabStep(t, [tab EXCEPT !.pc = "done",
                                            !.tokenState = toTokenState(primary, cNow)])
                ELSE TabStep(t, [tab EXCEPT !.pc = "legacy"])
           ELSE IF primaryStart # Null
                THEN TabStep(t, [tab EXCEPT !.pc = "done", !.start = primaryStart])
                ELSE TabStep(t, [tab EXCEPT !.pc = "legacy"])
        /\ UNCHANGED client
        /\ MigrationFrame

\* localStorage.getItem of the legacy key.
ReadLegacy(t) ==
    LET tab == migration.tabs[t]
        legacy == parseStoredToken(client.lsLegacyToken)
        legacyStart == parseSessionStart(client.lsLegacySessionStart)
    IN  /\ tab.pc = "legacy"
        /\ IF tab.key = "token"
           THEN IF legacy # NoEntry
                THEN LET state == toTokenState(legacy, cNow)
                     IN  TabStep(t, [tab EXCEPT
                             !.pc = IF state.token # Null THEN "write" ELSE "done",
                             !.entry = legacy, !.tokenState = state])
                ELSE TabStep(t, [tab EXCEPT !.pc = "done"])
           ELSE IF legacyStart # Null
                THEN TabStep(t, [tab EXCEPT !.pc = "write", !.start = legacyStart])
                ELSE TabStep(t, [tab EXCEPT !.pc = "done"])
        /\ UNCHANGED client
        /\ MigrationFrame

\* localStorage.setItem of the current key.
WriteCurrent(t) ==
    LET tab == migration.tabs[t]
    IN  /\ tab.pc = "write"
        /\ client' = IF tab.key = "token"
                     THEN [client EXCEPT !.lsToken = tab.entry]
                     ELSE [client EXCEPT !.lsSessionStart = tab.start]
        /\ TabStep(t, [tab EXCEPT !.pc = "delete"])
        /\ MigrationFrame

\* Variant: the legacy key is removed although setItem threw.
WriteFails_StillDeletes(t) ==
    /\ migration.tabs[t].pc = "write"
    /\ TabStep(t, [migration.tabs[t] EXCEPT !.pc = "delete"])
    /\ UNCHANGED client
    /\ MigrationFrame

\* localStorage.setItem throws: the catch skips the removeItem that follows it.
WriteFails(t) ==
    /\ migration.tabs[t].pc = "write"
    /\ TabStep(t, [migration.tabs[t] EXCEPT !.pc = "done"])
    /\ UNCHANGED client
    /\ MigrationFrame

\* localStorage.removeItem of the legacy key.
DeleteLegacy(t) ==
    LET tab == migration.tabs[t]
    IN  /\ tab.pc = "delete"
        /\ client' = IF tab.key = "token"
                     THEN [client EXCEPT !.lsLegacyToken = NoEntry]
                     ELSE [client EXCEPT !.lsLegacySessionStart = Null]
        /\ TabStep(t, [tab EXCEPT !.pc = "done"])
        /\ MigrationFrame

NextMigration ==
    \E t \in Tabs :
        \/ BeginRead(t)
        \/ ReadPrimary(t)
        \/ ReadLegacy(t)
        \/ WriteCurrent(t)
        \/ WriteFails(t)
        \/ DeleteLegacy(t)

SpecMigration == InitMigration /\ [][NextMigration]_vars

\* The entry and the session start the keys held before any tab read them.
StartEntry ==
    IF parseStoredToken(migration.start.lsToken) # NoEntry
    THEN parseStoredToken(migration.start.lsToken)
    ELSE parseStoredToken(migration.start.lsLegacyToken)

StartSessionStart ==
    IF parseSessionStart(migration.start.lsSessionStart) # Null
    THEN parseSessionStart(migration.start.lsSessionStart)
    ELSE parseSessionStart(migration.start.lsLegacySessionStart)

TokenMigrated ==
    /\ parseStoredToken(migration.start.lsToken) = NoEntry
    /\ parseStoredToken(client.lsToken) # NoEntry
    /\ client.lsLegacyToken = NoEntry

SessionStartMigrated ==
    /\ parseSessionStart(migration.start.lsSessionStart) = Null
    /\ parseSessionStart(client.lsSessionStart) # Null
    /\ client.lsLegacySessionStart = Null

\* A tab's read that finds the current key returns in this step.
ReadReturns(t, key) ==
    /\ migration.tabs[t].pc = "primary" /\ migration.tabs[t].key = key
    /\ migration'.tabs[t].pc = "done"

\* C38: with tabs reading the keys in any interleaving and writes that may
\* fail, some key holds the entry (the session start) the keys held at first in
\* every state; a legacy key is removed only while the current key holds the
\* same entry; once migrated, no step changes the keys and every read returns
\* the same token (session start); the migrated entry has the legacy entry's
\* storedAt and expiresAt.
C38_MigrationRaceSafe ==
    /\ [](/\ StartEntry # NoEntry =>
               \/ parseStoredToken(client.lsToken) = StartEntry
               \/ parseStoredToken(client.lsLegacyToken) = StartEntry
          /\ StartSessionStart # Null =>
               \/ parseSessionStart(client.lsSessionStart) = StartSessionStart
               \/ parseSessionStart(client.lsLegacySessionStart) = StartSessionStart
          /\ TokenMigrated =>
               LET legacy == parseStoredToken(migration.start.lsLegacyToken)
               IN  /\ parseStoredToken(client.lsToken).storedAt = legacy.storedAt
                   /\ parseStoredToken(client.lsToken).expiresAt = legacy.expiresAt
                   /\ parseStoredToken(client.lsToken).token = legacy.token
          /\ SessionStartMigrated =>
               client.lsSessionStart = parseSessionStart(migration.start.lsLegacySessionStart))
    /\ [][/\ client'.lsLegacyToken # client.lsLegacyToken =>
               parseStoredToken(client.lsToken) = parseStoredToken(client.lsLegacyToken)
          /\ client'.lsLegacySessionStart # client.lsLegacySessionStart =>
               client.lsSessionStart = parseSessionStart(client.lsLegacySessionStart)
          /\ TokenMigrated =>
               /\ client'.lsToken = client.lsToken
               /\ client'.lsLegacyToken = client.lsLegacyToken
               /\ \A t \in Tabs : ReadReturns(t, "token") =>
                      /\ migration'.tabs[t].tokenState.token = StartEntry.token
                      /\ migration'.tabs[t].tokenState.token # Null
          /\ SessionStartMigrated =>
               /\ client'.lsSessionStart = client.lsSessionStart
               /\ client'.lsLegacySessionStart = client.lsLegacySessionStart
               /\ \A t \in Tabs : ReadReturns(t, "session") =>
                      migration'.tabs[t].start = StartSessionStart]_vars

\* Two tabs raced through the migration of a legacy-shaped token entry (both
\* found it under the legacy key), and one of them read the keys again
\* afterwards and got the token from the current key.
C38_Witness ==
    /\ TokenMigrated
    /\ migration.start.lsLegacyToken.expiresAt = Null
    /\ \A t \in Tabs : migration.tabs[t].reads >= 1 /\ migration.tabs[t].pc = "done"
    /\ \E t \in Tabs : migration.tabs[t].key = "token" /\ migration.tabs[t].reads = 1
                        /\ migration.tabs[t].entry = StartEntry
    /\ \E t \in Tabs : migration.tabs[t].key = "token" /\ migration.tabs[t].reads = 2
                        /\ migration.tabs[t].entry = NoEntry
                        /\ migration.tabs[t].tokenState.token = StartEntry.token

\* The entry readStoredToken found at the mount.
MountedEntry ==
    IF parseStoredToken(mount.lsToken) # NoEntry
    THEN parseStoredToken(mount.lsToken)
    ELSE parseStoredToken(mount.lsLegacyToken)

\* The hook of a signed-in user holding the entry's token until the entry's expiry.
HoldingEntry(entry) ==
    [InitClientState EXCEPT !.user = 1, !.accessToken = entry.token,
                            !.accessTokenRef = entry.token,
                            !.accessTokenExpiresAt = ExpiryOf(entry)]

\* C39: for every stored entry and every clock value, readStoredToken returns
\* the entry's token exactly when checkExpiry at that clock value would leave
\* the token in place.
C39_ReadAgreesWithWatcher ==
    (mount.done /\ MountedEntry # NoEntry) =>
        (mount.stored.token # Null
            <=> checkExpiry(HoldingEntry(MountedEntry), mount.now).accessToken # Null)

\* The auth listener's last delivery was 'no user', and neither signIn() nor
\* signOut() is in progress.
SignedOutDelivered ==
    /\ authUser = Null
    /\ ~authNotify
    /\ signInPc = "idle"

NoCredentials ==
    /\ client.accessToken = Null
    /\ client.accessTokenExpiresAt = Null
    /\ client.lsToken = NoEntry
    /\ client.lsLegacyToken = NoEntry
    /\ client.lsSessionStart = Null
    /\ client.lsLegacySessionStart = Null

\* C40: whenever the auth listener has delivered 'no user' and no sign-in is in
\* progress, the hook holds no access token and no expiresAt, and the token
\* keys and the session-start keys, current and legacy, are absent.
C40_SignedOutNoCredentials == SignedOutDelivered => NoCredentials
====
